---- MODULE Spec2Model ----
(***************************************************************************)
(* claude-squad: the Instance supervisor.                                  *)
(*                                                                         *)
(* One Instance object (session/instance.go) with its TmuxSession handle   *)
(* (session/tmux/tmux.go), its git worktree handle, the part of the tmux   *)
(* server and of the repository that belongs to the instance's name, the   *)
(* per-project store, and the front-end handlers that create and kill the  *)
(* instance (app/app.go).                                                  *)
(*                                                                         *)
(* Every call of an external command (tmux, git, pty allocation, file      *)
(* I/O) may fail: an operation takes the set f of failure points that fail *)
(* during the call.  The package session/git is not part of the sources;   *)
(* its operations are modelled from section 4.4 of the specification.      *)
(***************************************************************************)
EXTENDS Naturals, Sequences, FiniteSets

VARIABLES
    \* --- Instance (session/instance.go:31-67) ---
    obj,            \* an Instance object has been allocated (NewInstance)
    Title,          \* Instance.Title
    Branch,         \* Instance.Branch
    Status,         \* Instance.Status
    started,        \* Instance.started
    tmuxSession,    \* Instance.tmuxSession # nil
    gitWorktree,    \* Instance.gitWorktree # nil
    diffStats,      \* Instance.diffStats
    AutoYes,        \* Instance.AutoYes
    \* --- TmuxSession (session/tmux/tmux.go:28-58) ---
    ptmx,           \* TmuxSession.ptmx # nil
    attachCh,       \* TmuxSession.attachCh # nil
    \* --- the tmux server and the repository ---
    sessionExists,  \* a tmux session named claudesquad_<Title> exists
    worktreeExists, \* the worktree directory exists on disk
    branchExists,   \* the instance's branch exists in the repository
    dirty,          \* the worktree holds uncommitted changes
    checkedOut,     \* the branch is checked out in another worktree
    \* --- front-end (app/app.go:48-95) and per-project store ---
    appState,       \* home.state
    autoYes,        \* home.autoYes
    inList,         \* the object is an item of home.list
    store,          \* titles of the records of the per-project store
    \* --- history of the run ---
    killed,         \* Instance.Kill has run past its guard on the object
    extDeath,       \* the session was ended from outside and not recreated
    globalFile,     \* the global state file on disk
    gsmState,       \* GlobalStateManager.state, the manager's cached copy
    projectFiles,   \* the instance records of each project's state file
    bg,             \* the command running off the event loop, and its position
    posted,            \* the completion message it has posted, not yet handled
    fleet,          \* the instances of the fleet model and the names of the sessions on the server
    att,            \* the relay of an attached session: its workers, streams and done-channel
    home,           \* the confirmation overlay and the error box of the application
    entry,          \* the list, the commands in flight and the messages of the name entry
    created,        \* number of Instance objects allocated so far
    last,           \* the last operation: name, error, steps, faults, state before
    prev            \* the operation before it, when it was a successful Pause

vars == <<obj, Title, Branch, Status, started, tmuxSession, gitWorktree, diffStats,
          AutoYes, ptmx, attachCh, sessionExists, worktreeExists, branchExists, dirty,
          checkedOut, appState, autoYes, inList, store, killed, extDeath, bg, posted,
          globalFile, gsmState, projectFiles, fleet, att, home, entry, created, last, prev>>

\* Objects allocated in one run (KeyNew presses).
MaxCreated == 2

\* External calls that fail during one operation.
MaxFaults == 2

\* Status (session/instance.go:17-28).
Running == "Running"
Ready == "Ready"
Loading == "Loading"
Paused == "Paused"
\* The two statuses the application uses beyond those four.
Error == "Error"
Translating == "Translating"

\* Titles the operator may type.
Titles == {"", "feat"}

NoBranch == <<>>
\* git.NewGitWorktree derives the branch name from the title.
BranchName(title) == <<"branch", title>>

\* home.state (app/app.go:36-46).
stateDefault == "default"
stateNew == "new"

(***************************************************************************)
(* Errors.  An error is the sequence of the messages wrapped in it; nil is *)
(* the empty sequence.                                                     *)
(***************************************************************************)
NoErr == <<>>
Wrap(msg, err) == <<msg>> \o err
Contains(err, msg) == \E i \in 1..Len(err) : err[i] = msg

RECURSIVE Flatten(_)
Flatten(errs) ==
    IF Len(errs) = 0 THEN <<>> ELSE Head(errs) \o Flatten(Tail(errs))

\* A result of an operation: the state it leaves and the error it returns.
Res(s, e) == [s |-> s, err |-> e]
Failed(r) == r.err # NoErr

\* Bookkeeping of a call: the steps it attempted, the injected failures that fired.
Step(s, name) == [s EXCEPT !.steps = Append(@, name)]
Fault(s, name) == [s EXCEPT !.faults = @ \cup {name}]

(***************************************************************************)
(* TmuxSession                                                             *)
(***************************************************************************)

\* tmux has-session -t=<name>
DoesSessionExist(s) == s.sessionExists

\* Restore: a new pty running attach-session becomes the live stream.
TmuxSessionRestore(s, fail) ==
    IF fail
    THEN Res(s, <<"error opening PTY">>)
    ELSE Res([s EXCEPT !.ptmx = TRUE], NoErr)

\* The two error slots of Close joined as Close joins them.
CloseErrors(errs) ==
    IF Len(errs) = 0 THEN NoErr
    ELSE IF Len(errs) = 1 THEN errs[1]
    ELSE <<"multiple errors occurred during cleanup:">> \o Flatten(errs)

\* Close: close the live stream, then kill-session.  kill-session fails when it is
\* made to fail or when no session of that name exists.
TmuxSessionClose(s, f) ==
    LET closeFails == s.ptmx /\ "PtyClose" \in f
        s1 == [(IF closeFails THEN Fault(s, "PtyClose") ELSE s) EXCEPT !.ptmx = FALSE]
        killInjected == "KillSession" \in f /\ s1.sessionExists
        killFails == killInjected \/ ~s1.sessionExists
        s2 == IF killInjected THEN Fault(s1, "KillSession")
              ELSE [s1 EXCEPT !.sessionExists = FALSE]
        errs == (IF closeFails THEN << <<"error closing PTY">> >> ELSE <<>>)
                \o (IF killFails THEN << <<"error killing tmux session">> >> ELSE <<>>)
    IN  Res(s2, CloseErrors(errs))

\* new-session has taken effect on the tmux server.
NewSession(s) == [s EXCEPT !.sessionExists = TRUE]

\* Start: refuse an existing session; new-session in a pty; wait for the session;
\* Restore.  Each failure path cleans up with kill-session or Close.
TmuxSessionStart(s, f) ==
    IF DoesSessionExist(s)
    THEN Res(s, <<"tmux session already exists">>)
    ELSE IF "PtyNewSession" \in f
    THEN \* the pty call failed; the session may exist all the same
         LET s0 == Fault(s, "PtyNewSession")
             s1 == IF "Partial" \in f THEN NewSession(s0) ELSE s0
             cleanupFails == DoesSessionExist(s1) /\ "KillSession" \in f
             s2 == IF cleanupFails THEN Fault(s1, "KillSession")
                   ELSE [s1 EXCEPT !.sessionExists = FALSE]
         IN  Res(s2, Wrap("error starting tmux session",
                          IF cleanupFails THEN <<"pty", "cleanup error">> ELSE <<"pty">>))
    ELSE IF "Timeout" \in f
    THEN \* the session never shows up within 2 s
         LET c == TmuxSessionClose(Fault(s, "Timeout"), f)
         IN  Res(c.s, Wrap("timed out waiting for tmux session", c.err))
    ELSE LET s1 == NewSession(s)
             r == TmuxSessionRestore(s1, "StartRestore" \in f)
         IN  IF Failed(r)
             THEN LET c == TmuxSessionClose(Fault(r.s, "StartRestore"), f)
                  IN  Res(c.s, Wrap("error restoring tmux session", r.err \o c.err))
             ELSE Res([r.s EXCEPT !.extDeath = FALSE], NoErr)

\* Attach: the handle becomes attached (attachCh, ctx, wg are set).
TmuxSessionAttach(s) == [s EXCEPT !.attachCh = TRUE]

\* Detach (Ctrl-Q): close the live stream, Restore a new one, clear the attach state.
\* A failure of either step panics; the run ends there and is not modelled.
TmuxSessionDetach(s) == [s EXCEPT !.ptmx = TRUE, !.attachCh = FALSE]

\* DetachSafely as it would be if pausing ended the session instead of leaving it.
DetachSafelyEndingSession(s, f) ==
    IF ~s.attachCh
    THEN Res(s, NoErr)
    ELSE Res([s EXCEPT !.ptmx = FALSE, !.attachCh = FALSE, !.sessionExists = FALSE], NoErr)

\* DetachSafely: nothing when not attached; else close the live stream, leave it
\* nil and clear the attach state.  The session itself is left alone.
TmuxSessionDetachSafely(s, f) ==
    IF ~s.attachCh
    THEN Res(s, NoErr)
    ELSE LET closeFails == s.ptmx /\ "PtyClose" \in f
             s1 == [(IF closeFails THEN Fault(s, "PtyClose") ELSE s)
                       EXCEPT !.ptmx = FALSE, !.attachCh = FALSE]
         IN  Res(s1, IF closeFails
                     THEN <<"errors during detach:", "error closing attach pty session">>
                     ELSE NoErr)

(***************************************************************************)
(* GitWorktree (package session/git, modelled from the specification)      *)
(***************************************************************************)

\* create: derive the branch name and the worktree path; nothing on disk yet.
NewGitWorktree(s, fail) ==
    IF fail
    THEN Res(Fault(s, "NewGitWorktree"), <<"git worktree">>)
    ELSE Res([s EXCEPT !.gitWorktree = TRUE, !.Branch = BranchName(s.Title)], NoErr)

\* setup: materialise the branch and add the worktree; an existing worktree is reused.
GitWorktreeSetup(s, fail) ==
    IF fail
    THEN Res(Fault(s, "Setup"), <<"setup">>)
    ELSE Res([s EXCEPT !.worktreeExists = TRUE, !.branchExists = TRUE,
                       !.dirty = s.worktreeExists /\ s.dirty], NoErr)

\* cleanup: remove the worktree and delete the branch.
GitWorktreeCleanup(s, fail) ==
    IF fail
    THEN Res(Fault(s, "Cleanup"), <<"cleanup">>)
    ELSE Res([s EXCEPT !.worktreeExists = FALSE, !.branchExists = FALSE,
                       !.checkedOut = FALSE, !.dirty = FALSE,
                       !.lost = @ \/ (s.worktreeExists /\ s.dirty)], NoErr)

\* remove: delete the worktree directory, keep the branch.
GitWorktreeRemove(s, fail) ==
    IF fail
    THEN Res(Fault(s, "Remove"), <<"remove">>)
    ELSE Res([s EXCEPT !.worktreeExists = FALSE, !.dirty = FALSE,
                       !.lost = @ \/ (s.worktreeExists /\ s.dirty)], NoErr)

\* prune: worktree garbage collection.
GitWorktreePrune(s, fail) ==
    IF fail THEN Res(Fault(s, "Prune"), <<"prune">>) ELSE Res(s, NoErr)

\* is-dirty: fails when made to fail or when there is no worktree to look at.
GitWorktreeIsDirty(s, fail) ==
    IF fail \/ ~s.worktreeExists
    THEN [s |-> (IF fail THEN Fault(s, "IsDirty") ELSE s), err |-> <<"is-dirty">>, val |-> FALSE]
    ELSE [s |-> s, err |-> NoErr, val |-> s.dirty]

\* commit: a local commit of everything in the worktree.
GitWorktreeCommitChanges(s, fail) ==
    IF fail
    THEN Res(Fault(s, "Commit"), <<"commit">>)
    ELSE Res([s EXCEPT !.dirty = FALSE], NoErr)

\* is-branch-checked-out: the branch is the checkout of another worktree.
GitWorktreeIsBranchCheckedOut(s, fail) ==
    IF fail
    THEN [s |-> Fault(s, "IsBranchCheckedOut"), err |-> <<"checked-out">>, val |-> FALSE]
    ELSE [s |-> s, err |-> NoErr, val |-> s.checkedOut]

\* diff: the stats against the base commit, or an error.
GitWorktreeDiff(s, fail) ==
    IF fail \/ ~s.worktreeExists
    THEN [err |-> <<"diff">>, val |-> "none"]
    ELSE [err |-> NoErr, val |-> IF s.dirty THEN "changed" ELSE "same"]

(***************************************************************************)
(* Instance                                                                *)
(***************************************************************************)

\* combineErrors as it would be if it kept the first error only.
combineErrorsFirstOnly(errs) ==
    IF Len(errs) = 0 THEN NoErr ELSE errs[1]

\* combineErrors: nil, the single error, or one error that lists them all.
combineErrors(errs) ==
    IF Len(errs) = 0 THEN NoErr
    ELSE IF Len(errs) = 1 THEN errs[1]
    ELSE <<"multiple cleanup errors occurred:">> \o Flatten(errs)

\* A variant of Kill that cleans up the worktree before it closes the session.
KillCleaningUpFirst(s, f) ==
    IF ~s.started
    THEN Res(s, NoErr)
    ELSE LET s0 == [s EXCEPT !.killed = TRUE]
             g == IF s0.gitWorktree
                  THEN GitWorktreeCleanup(Step(s0, "Cleanup"), "Cleanup" \in f)
                  ELSE Res(s0, NoErr)
             c == IF g.s.tmuxSession
                  THEN TmuxSessionClose(Step(g.s, "Close"), f)
                  ELSE Res(g.s, NoErr)
             e1 == IF Failed(c)
                   THEN << Wrap("failed to close tmux session", c.err) >> ELSE <<>>
             e2 == IF Failed(g)
                   THEN << Wrap("failed to cleanup git worktree", g.err) >> ELSE <<>>
         IN  Res(c.s, combineErrors(e1 \o e2))

\* Kill: nothing on an instance that is not started; else Close the session and
\* Cleanup the worktree, both attempted, the errors combined.
InstanceKill(s, f) ==
    IF ~s.started
    THEN Res(s, NoErr)
    ELSE LET s0 == [s EXCEPT !.killed = TRUE]
             c == IF s0.tmuxSession
                  THEN TmuxSessionClose(Step(s0, "Close"), f)
                  ELSE Res(s0, NoErr)
             e1 == IF Failed(c)
                   THEN << Wrap("failed to close tmux session", c.err) >> ELSE <<>>
             g == IF c.s.gitWorktree
                  THEN GitWorktreeCleanup(Step(c.s, "Cleanup"), "Cleanup" \in f)
                  ELSE Res(c.s, NoErr)
             e2 == IF Failed(g)
                   THEN << Wrap("failed to cleanup git worktree", g.err) >> ELSE <<>>
         IN  Res(g.s, combineErrors(e1 \o e2))

\* The part of Start after the deferred handler is registered.
StartBody(s, firstTimeSetup, f) ==
    IF ~firstTimeSetup
    THEN LET r == TmuxSessionRestore(Step(s, "Restore"), "Restore" \in f)
         IN  IF Failed(r)
             THEN Res(Fault(r.s, "Restore"), Wrap("failed to restore existing session", r.err))
             ELSE Res(r.s, NoErr)
    ELSE LET g == GitWorktreeSetup(Step(s, "Setup"), "Setup" \in f)
         IN  IF Failed(g)
             THEN Res(g.s, Wrap("failed to setup git worktree", g.err))
             ELSE LET t == TmuxSessionStart(Step(g.s, "Start"), f)
                  IN  IF Failed(t)
                      THEN LET c == GitWorktreeCleanup(Step(t.s, "Cleanup"), "Cleanup" \in f)
                           IN  Res(c.s, Wrap("failed to start new session", t.err \o c.err))
                      ELSE Res(t.s, NoErr)

\* The part of a first Start before the deferred handler is registered.
StartHead(s, f) ==
    IF s.Title = ""
    THEN Res(s, <<"instance title cannot be empty">>)
    ELSE LET w == NewGitWorktree(Step([s EXCEPT !.tmuxSession = TRUE], "NewGitWorktree"),
                                 "NewGitWorktree" \in f)
         IN  IF Failed(w)
             THEN Res(w.s, Wrap("failed to create git worktree", w.err))
             ELSE Res(w.s, NoErr)

\* The end of Start: SetStatus(Running) when the body succeeded, then the
\* deferred handler, which calls Kill on failure and sets started otherwise.
StartDeferred(s, setupErr, f) ==
    IF setupErr # NoErr
    THEN Res(InstanceKill(s, f).s, setupErr)
    ELSE Res([s EXCEPT !.Status = Running, !.started = TRUE], NoErr)

\* A variant of Start without the check of the title.
StartWithoutTitleCheck(s, firstTimeSetup, f) ==
    LET s0 == [s EXCEPT !.tmuxSession = TRUE]
        w == IF firstTimeSetup
             THEN NewGitWorktree(Step(s0, "NewGitWorktree"), "NewGitWorktree" \in f)
             ELSE Res(s0, NoErr)
        b == StartBody(w.s, firstTimeSetup, f)
    IN  IF Failed(w)
        THEN Res(w.s, Wrap("failed to create git worktree", w.err))
        ELSE IF Failed(b)
        THEN Res(InstanceKill(b.s, f).s, b.err)
        ELSE Res([b.s EXCEPT !.Status = Running, !.started = TRUE], NoErr)

\* Start: title check, session handle, worktree handle, then the body; the deferred
\* handler calls Kill when the body failed and sets started when it did not.
InstanceStart(s, firstTimeSetup, f) ==
    IF s.Title = ""
    THEN Res(s, <<"instance title cannot be empty">>)
    ELSE LET s0 == [s EXCEPT !.tmuxSession = TRUE]
             w == IF firstTimeSetup
                  THEN NewGitWorktree(Step(s0, "NewGitWorktree"), "NewGitWorktree" \in f)
                  ELSE Res(s0, NoErr)
         IN  IF Failed(w)
             THEN Res(w.s, Wrap("failed to create git worktree", w.err))
             ELSE LET b == StartBody(w.s, firstTimeSetup, f)
                  IN  IF Failed(b)
                      THEN Res(InstanceKill(b.s, f).s, b.err)
                      ELSE Res([b.s EXCEPT !.Status = Running, !.started = TRUE], NoErr)

\* The part of Pause after the commit: detach, remove and prune the worktree when
\* its directory exists, and set Paused when no step has failed.
PauseRelease(s, errs, f) ==
    LET t == TmuxSessionDetachSafely(Step(s, "DetachSafely"), f)
        e2 == errs \o (IF Failed(t)
                       THEN << Wrap("failed to detach tmux session", t.err) >> ELSE <<>>)
    IN  IF t.s.worktreeExists
        THEN LET r == GitWorktreeRemove(Step(t.s, "Remove"), "Remove" \in f)
             IN  IF Failed(r)
                 THEN Res(r.s, combineErrors(e2 \o << Wrap("failed to remove git worktree", r.err) >>))
                 ELSE LET p == GitWorktreePrune(Step(r.s, "Prune"), "Prune" \in f)
                      IN  IF Failed(p)
                          THEN Res(p.s, combineErrors(e2 \o << Wrap("failed to prune git worktrees", p.err) >>))
                          ELSE IF Len(e2) # 0
                          THEN Res(p.s, combineErrors(e2))
                          ELSE Res([p.s EXCEPT !.Status = Paused], NoErr)
        ELSE IF Len(e2) # 0
        THEN Res(t.s, combineErrors(e2))
        ELSE Res([t.s EXCEPT !.Status = Paused], NoErr)

\* Pause as it would be if it went on to the release after a failed commit.
PauseContinuingAfterCommitFailure(s, f) ==
    IF ~s.started
    THEN Res(s, <<"cannot pause instance that has not been started">>)
    ELSE IF s.Status = Paused
    THEN Res(s, <<"instance is already paused">>)
    ELSE LET d == GitWorktreeIsDirty(Step(s, "IsDirty"), "IsDirty" \in f)
             c == IF ~Failed(d) /\ d.val
                  THEN GitWorktreeCommitChanges(Step(d.s, "Commit"), "Commit" \in f)
                  ELSE Res(d.s, NoErr)
         IN  PauseRelease(c.s, IF Failed(c) THEN << Wrap("failed to commit changes", c.err) >>
                                ELSE <<>>, f)

\* Pause as it would be if it released the worktree without committing.
PauseWithoutCommit(s, f) ==
    IF ~s.started
    THEN Res(s, <<"cannot pause instance that has not been started">>)
    ELSE IF s.Status = Paused
    THEN Res(s, <<"instance is already paused">>)
    ELSE PauseRelease(Step(s, "IsDirty"), <<>>, f)

\* Pause: guards; commit a dirty worktree (a failed commit returns at once); release.
InstancePause(s, f) ==
    IF ~s.started
    THEN Res(s, <<"cannot pause instance that has not been started">>)
    ELSE IF s.Status = Paused
    THEN Res(s, <<"instance is already paused">>)
    ELSE LET d == GitWorktreeIsDirty(Step(s, "IsDirty"), "IsDirty" \in f)
             e1 == IF Failed(d)
                   THEN << Wrap("failed to check if worktree is dirty", d.err) >> ELSE <<>>
         IN  IF ~Failed(d) /\ d.val
             THEN LET c == GitWorktreeCommitChanges(Step(d.s, "Commit"), "Commit" \in f)
                  IN  IF Failed(c)
                      THEN Res(c.s, combineErrors(e1 \o << Wrap("failed to commit changes", c.err) >>))
                      ELSE PauseRelease(c.s, e1, f)
             ELSE PauseRelease(d.s, e1, f)

\* The session part of Resume: Restore an existing session, falling back to Start;
\* Start when there is none; Cleanup of the worktree when Start fails.
ResumeSession(s, f) ==
    LET restore == IF DoesSessionExist(s)
                   THEN TmuxSessionRestore(Step(s, "Restore"), "Restore" \in f)
                   ELSE Res(s, NoErr)
        restored == DoesSessionExist(s) /\ ~Failed(restore)
        s1 == IF Failed(restore) THEN Fault(restore.s, "Restore") ELSE restore.s
    IN  IF restored
        THEN Res([s1 EXCEPT !.Status = Running], NoErr)
        ELSE LET t == TmuxSessionStart(Step(s1, "Start"), f)
             IN  IF Failed(t)
                 THEN LET c == GitWorktreeCleanup(Step(t.s, "Cleanup"), "Cleanup" \in f)
                      IN  Res(c.s, Wrap("failed to start new session", t.err \o c.err))
                 ELSE Res([t.s EXCEPT !.Status = Running], NoErr)

\* Resume as it would be if it did not look at the result of is-branch-checked-out.
ResumeIgnoringCheckout(s, f) ==
    IF ~s.started
    THEN Res(s, <<"cannot resume instance that has not been started">>)
    ELSE IF s.Status # Paused
    THEN Res(s, <<"can only resume paused instances">>)
    ELSE LET g == GitWorktreeSetup(Step(s, "Setup"), "Setup" \in f)
         IN  IF Failed(g)
             THEN Res(g.s, Wrap("failed to setup git worktree", g.err))
             ELSE ResumeSession(g.s, f)

\* Resume: guards; the branch must not be checked out; Setup; the session part.
InstanceResume(s, f) ==
    IF ~s.started
    THEN Res(s, <<"cannot resume instance that has not been started">>)
    ELSE IF s.Status # Paused
    THEN Res(s, <<"can only resume paused instances">>)
    ELSE LET b == GitWorktreeIsBranchCheckedOut(Step(s, "IsBranchCheckedOut"),
                                                "IsBranchCheckedOut" \in f)
         IN  IF Failed(b)
             THEN Res(b.s, Wrap("failed to check if branch is checked out", b.err))
             ELSE IF b.val
             THEN Res(b.s, <<"cannot resume: branch is checked out, please switch to a different branch">>)
             ELSE LET g == GitWorktreeSetup(Step(b.s, "Setup"), "Setup" \in f)
                  IN  IF Failed(g)
                      THEN Res(g.s, Wrap("failed to setup git worktree", g.err))
                      ELSE ResumeSession(g.s, f)

\* The error an operation returns on an instance that is not started.
NotStartedErrors ==
    { <<"cannot attach instance that has not been started">>,
      <<"cannot set preview size for instance that has not been started or is paused">>,
      <<"cannot get git worktree for instance that has not been started">>,
      <<"cannot pause instance that has not been started">>,
      <<"cannot resume instance that has not been started">>,
      <<"instance not started">> }

\* capture-pane fails when it is made to fail or when the session is gone.
CapturePaneContent(s, f) ==
    IF "Capture" \in f \/ ~s.sessionExists
    THEN <<"error capturing pane content">> ELSE NoErr

\* Preview: empty and no error when not started or paused; else the pane content.
InstancePreview(s, f) ==
    IF ~s.started \/ s.Status = Paused THEN NoErr ELSE CapturePaneContent(s, f)

\* SetPreviewSize: refused when not started or paused; else a resize of the live stream.
InstanceSetPreviewSize(s) ==
    IF ~s.started \/ s.Status = Paused
    THEN <<"cannot set preview size for instance that has not been started or is paused">>
    ELSE IF s.ptmx THEN NoErr ELSE <<"setsize: invalid argument">>

\* GetGitWorktree: refused when not started.
InstanceGetGitWorktree(s) ==
    IF ~s.started
    THEN <<"cannot get git worktree for instance that has not been started">>
    ELSE NoErr

\* SendPrompt: refused when not started or without a handle; else a write to the stream.
InstanceSendPrompt(s) ==
    IF ~s.started THEN <<"instance not started">>
    ELSE IF ~s.tmuxSession THEN <<"tmux session not initialized">>
    ELSE IF s.ptmx THEN NoErr
    ELSE <<"error sending keys to tmux session", "invalid argument">>

\* Attach: refused when not started; else the handle's Attach.
InstanceAttach(s) ==
    IF ~s.started
    THEN Res(s, <<"cannot attach instance that has not been started">>)
    ELSE Res(TmuxSessionAttach(s), NoErr)

\* A variant of SetTitle that does not look at the started flag.
SetTitleUnguarded(s, title) == Res([s EXCEPT !.Title = title], NoErr)

\* SetTitle: refused once the instance has started.
InstanceSetTitle(s, title) ==
    IF s.started
    THEN Res(s, <<"cannot change title of a started instance">>)
    ELSE Res([s EXCEPT !.Title = title], NoErr)

\* UpdateDiffStats: nil when not started, kept when paused, else the diff of the worktree.
InstanceUpdateDiffStats(s, f) ==
    IF ~s.started THEN [s EXCEPT !.diffStats = "none"]
    ELSE IF s.Status = Paused THEN s
    ELSE LET d == GitWorktreeDiff(s, "Diff" \in f)
         IN  IF d.err # NoErr THEN s ELSE [s EXCEPT !.diffStats = d.val]

\* TmuxAlive: the session answers has-session.
InstanceTmuxAlive(s) == DoesSessionExist(s)

\* RestartTmux: start the session of the handle again.
InstanceRestartTmux(s, f) == TmuxSessionStart(Step(s, "RestartTmux"), f)

\* attemptTmuxRecovery: only for a capture error; a live session is left alone;
\* a dead one is restarted, and the instance is marked Error when that fails.
attemptTmuxRecovery(s, originalErr, f) ==
    IF ~Contains(originalErr, "error capturing pane content")
    THEN Res(s, originalErr)
    ELSE IF InstanceTmuxAlive(s)
    THEN Res(s, Wrap("tmux session exists but failed to capture content", originalErr))
    ELSE LET r == InstanceRestartTmux(s, f)
         IN  IF Failed(r)
             THEN Res([r.s EXCEPT !.Status = Error],
                      Wrap("tmux session died and failed to restart", r.err))
             ELSE Res(r.s, NoErr)

\* UpdateContent of the preview pane: a fallback text for a Paused or Error
\* instance; else Preview, one recovery attempt on error, and a retry.
UpdateContent(s, f) ==
    IF s.Status = Paused \/ s.Status = Error
    THEN Res(s, NoErr)
    ELSE LET err == InstancePreview(s, f)
         IN  IF err = NoErr
             THEN Res(s, NoErr)
             ELSE LET rec == attemptTmuxRecovery(s, err, f)
                  IN  IF Failed(rec) THEN rec
                      ELSE Res(rec.s, InstancePreview(rec.s, f))

\* TapEnter: an Enter keystroke to the pane, only when started and auto-yes.
InstanceTapEnter(s) ==
    IF ~s.started \/ ~s.AutoYes THEN s ELSE Step(s, "TapEnter")

\* A variant of the tick that marks an instance waiting at a prompt as Ready.
TickReadyAtPrompt(s, seen, f) ==
    IF ~s.started \/ s.Status = Paused
    THEN s
    ELSE LET captured == CapturePaneContent(s, f) = NoErr
             s0 == [s EXCEPT !.seen = IF captured THEN seen ELSE "failed"]
             s1 == IF captured /\ seen = "updated" THEN [s0 EXCEPT !.Status = Running]
                   ELSE [InstanceTapEnter(s0) EXCEPT !.Status = Ready]
         IN  InstanceUpdateDiffStats(s1, f)

\* One instance's share of the metadata tick; seen is what has-updated observes.
TickInstance(s, seen, f) ==
    IF ~s.started \/ s.Status = Paused
    THEN s
    ELSE LET captured == CapturePaneContent(s, f) = NoErr
             updated == captured /\ seen = "updated"
             prompt == captured /\ seen = "prompt"
             s0 == [s EXCEPT !.seen = IF captured THEN seen ELSE "failed"]
             s1 == IF updated THEN [s0 EXCEPT !.Status = Running]
                   ELSE IF prompt THEN InstanceTapEnter(s0)
                   ELSE [s0 EXCEPT !.Status = Ready]
         IN  InstanceUpdateDiffStats(s1, f)

(***************************************************************************)
(* The list, the store                                                     *)
(***************************************************************************)

\* List.Kill: kill the selected instance, log the error, drop the item.
ListKill(s, f) ==
    IF ~s.inList THEN s
    ELSE [InstanceKill(s, f).s EXCEPT !.inList = FALSE]

\* SaveInstances: load, replace the records by the given ones, save.
StorageSaveInstances(s, titles, fail) ==
    IF fail
    THEN Res(Fault(s, "Save"), <<"failed to load or save project state">>)
    ELSE Res([s EXCEPT !.store = titles], NoErr)

\* DeleteInstance: load, drop the record of that title, save; not found is an error.
StorageDeleteInstance(s, title, fail) ==
    IF fail
    THEN Res(Fault(s, "Delete"), <<"failed to load or save project state">>)
    ELSE IF title \notin s.store
    THEN Res(s, <<"instance not found">>)
    ELSE Res([s EXCEPT !.store = @ \ {title}], NoErr)

(***************************************************************************)
(* The global store (GlobalStateManager) and the per-project stores        *)
(* (ProjectStorage).  An operation takes the stores t and returns them     *)
(* with its error.                                                         *)
(***************************************************************************)

ProjectInstanceLimit == 10

\* Repository roots, and the legacy group key of a record without either path.
RepoPaths == {"/r/a", "/r/b"}
GroupKeys == RepoPaths \cup {""}

\* GenerateProjectID: the first 16 hex digits of the SHA-256 of the path.
GenerateProjectID(repoPath) ==
    CASE repoPath = "/r/a" -> "5e629eccc8f1856b"
      [] repoPath = "/r/b" -> "37485e66e98b9f00"
      [] repoPath = "" -> "e3b0c44298fc1c14"

\* filepath.Base
Base(path) ==
    CASE path = "/r/a" -> "a"
      [] path = "/r/b" -> "b"
      [] path = "" -> "."

ProjectIDs == {GenerateProjectID(p) : p \in GroupKeys}

\* Readings of time.Now().
Times == {1, 2}

DefaultGlobalState == [Projects |-> <<>>, HelpScreensSeen |-> 0, LastMigrationVersion |-> 0]

\* No global state file; a manager that has loaded nothing.
NoFile == [exists |-> FALSE, state |-> DefaultGlobalState]
NotLoaded == [loaded |-> FALSE, state |-> DefaultGlobalState]

\* LoadGlobalState: the default when there is no file (not cached); an error when
\* the file cannot be read or parsed; else the file's state, cached.
LoadGlobalState(t, fail) ==
    IF ~t.globalFile.exists
    THEN [s |-> t, err |-> NoErr, state |-> DefaultGlobalState]
    ELSE IF fail
    THEN [s |-> t, err |-> <<"failed to read global state">>, state |-> DefaultGlobalState]
    ELSE [s |-> [t EXCEPT !.gsmState = [loaded |-> TRUE, state |-> t.globalFile.state]],
          err |-> NoErr, state |-> t.globalFile.state]

\* GetOrCreateGlobalState: the cached state, else the loaded one, else the
\* default when loading failed; cached in every case.
GetOrCreateGlobalState(t, fail) ==
    IF t.gsmState.loaded
    THEN t
    ELSE LET l == LoadGlobalState(t, fail)
         IN  [l.s EXCEPT !.gsmState = [loaded |-> TRUE,
                                       state |-> IF l.err # NoErr THEN DefaultGlobalState
                                                 ELSE l.state]]

\* SaveGlobalState: the cached state is written to the file.
SaveGlobalState(t, fail) ==
    IF ~t.gsmState.loaded
    THEN Res(t, <<"no state loaded">>)
    ELSE IF fail
    THEN Res(t, <<"failed to write global state">>)
    ELSE Res([t EXCEPT !.globalFile = [exists |-> TRUE, state |-> t.gsmState.state]], NoErr)

\* The index of the first project with that id, 0 when there is none.
ProjectIndex(projects, projectID) ==
    IF \E i \in 1..Len(projects) : projects[i].ID = projectID
    THEN CHOOSE i \in 1..Len(projects) :
            /\ projects[i].ID = projectID
            /\ \A j \in 1..(i - 1) : projects[j].ID # projectID
    ELSE 0

\* GetProject: the project of that id in the cached state, if any.
GetProject(t, projectID, fail) ==
    LET t1 == GetOrCreateGlobalState(t, fail)
    IN  [s |-> t1, found |-> ProjectIndex(t1.gsmState.state.Projects, projectID) > 0]

\* A variant of AddProject that always appends.
AddProjectAlwaysAppending(t, projectID, name, repoPath, now, f) ==
    LET t1 == GetOrCreateGlobalState(t, "Read" \in f)
        p == [ID |-> projectID, Name |-> name, RepoPath |-> repoPath,
              CreatedAt |-> now, UpdatedAt |-> now, InstanceCount |-> 0]
    IN  SaveGlobalState([t1 EXCEPT !.gsmState.state.Projects = Append(@, p)], "Write" \in f)

\* AddProject: an existing id gets the name, the path and a new updated-at; a
\* new id is appended with count 0; the cached state is changed, then saved.
AddProject(t, projectID, name, repoPath, now, f) ==
    LET t1 == GetOrCreateGlobalState(t, "Read" \in f)
        ps == t1.gsmState.state.Projects
        i == ProjectIndex(ps, projectID)
        ps2 == IF i > 0
               THEN [ps EXCEPT ![i].Name = name, ![i].RepoPath = repoPath,
                               ![i].UpdatedAt = now]
               ELSE Append(ps, [ID |-> projectID, Name |-> name, RepoPath |-> repoPath,
                                CreatedAt |-> now, UpdatedAt |-> now, InstanceCount |-> 0])
    IN  SaveGlobalState([t1 EXCEPT !.gsmState.state.Projects = ps2], "Write" \in f)

\* UpdateProjectInstanceCount: the count and updated-at of the project, then save.
UpdateProjectInstanceCount(t, projectID, count, now, f) ==
    LET t1 == GetOrCreateGlobalState(t, "Read" \in f)
        ps == t1.gsmState.state.Projects
        i == ProjectIndex(ps, projectID)
    IN  IF i = 0
        THEN Res(t1, <<"project not found">>)
        ELSE SaveGlobalState(
                 [t1 EXCEPT !.gsmState.state.Projects =
                                [ps EXCEPT ![i].InstanceCount = count, ![i].UpdatedAt = now]],
                 "Write" \in f)

\* RemoveProject: the projects of another id are kept, then save.
RemoveProject(t, projectID, f) ==
    LET t1 == GetOrCreateGlobalState(t, "Read" \in f)
        ps == t1.gsmState.state.Projects
    IN  IF ProjectIndex(ps, projectID) = 0
        THEN Res(t1, <<"project not found">>)
        ELSE SaveGlobalState(
                 [t1 EXCEPT !.gsmState.state.Projects =
                                SelectSeq(ps, LAMBDA q : q.ID # projectID)],
                 "Write" \in f)

\* SetHelpScreensSeen: the bitmask, then save.
SetHelpScreensSeen(t, seen, f) ==
    LET t1 == GetOrCreateGlobalState(t, "Read" \in f)
    IN  SaveGlobalState([t1 EXCEPT !.gsmState.state.HelpScreensSeen = seen], "Write" \in f)

(***************************************************************************)
(* The state machine                                                       *)
(***************************************************************************)

\* The state as one record, with the bookkeeping of the call about to be made.
Cur ==
    [obj |-> obj, Title |-> Title, Branch |-> Branch, Status |-> Status,
     started |-> started, tmuxSession |-> tmuxSession, gitWorktree |-> gitWorktree,
     diffStats |-> diffStats, AutoYes |-> AutoYes, ptmx |-> ptmx, attachCh |-> attachCh,
     sessionExists |-> sessionExists, worktreeExists |-> worktreeExists,
     branchExists |-> branchExists, dirty |-> dirty, checkedOut |-> checkedOut,
     appState |-> appState, autoYes |-> autoYes, inList |-> inList, store |-> store,
     killed |-> killed, extDeath |-> extDeath, created |-> created,
     steps |-> <<>>, faults |-> {}, lost |-> FALSE, seen |-> "none"]

Apply(s) ==
    /\ obj' = s.obj
    /\ Title' = s.Title
    /\ Branch' = s.Branch
    /\ Status' = s.Status
    /\ started' = s.started
    /\ tmuxSession' = s.tmuxSession
    /\ gitWorktree' = s.gitWorktree
    /\ diffStats' = s.diffStats
    /\ AutoYes' = s.AutoYes
    /\ ptmx' = s.ptmx
    /\ attachCh' = s.attachCh
    /\ sessionExists' = s.sessionExists
    /\ worktreeExists' = s.worktreeExists
    /\ branchExists' = s.branchExists
    /\ dirty' = s.dirty
    /\ checkedOut' = s.checkedOut
    /\ appState' = s.appState
    /\ autoYes' = s.autoYes
    /\ inList' = s.inList
    /\ store' = s.store
    /\ killed' = s.killed
    /\ extDeath' = s.extDeath
    /\ created' = s.created

\* What the history keeps of the state an operation started from.
Before ==
    [Status |-> Status, started |-> started, Branch |-> Branch, ptmx |-> ptmx,
     attachCh |-> attachCh, sessionExists |-> sessionExists,
     worktreeExists |-> worktreeExists, branchExists |-> branchExists,
     dirty |-> dirty, checkedOut |-> checkedOut, killed |-> killed, store |-> store,
     diffStats |-> diffStats]

NoOp == [op |-> "none", err |-> NoErr, steps |-> <<>>, faults |-> {}, lost |-> FALSE,
         seen |-> "none",
         pre |-> [Status |-> Ready, started |-> FALSE, Branch |-> NoBranch, ptmx |-> FALSE,
                  attachCh |-> FALSE, sessionExists |-> FALSE, worktreeExists |-> FALSE,
                  branchExists |-> FALSE, dirty |-> FALSE, checkedOut |-> FALSE,
                  killed |-> FALSE, store |-> {}, diffStats |-> "none"]]

\* The operations whose starting state the history keeps.
LifecycleOps == {"Start", "Kill", "KillAction", "Pause", "Resume"}

\* What a tick can change: the fields recorded before one.
TickBefore ==
    [NoOp.pre EXCEPT !.Status = Status, !.started = started, !.diffStats = diffStats]

NoPrev == [op |-> "none", Status |-> Ready, Branch |-> NoBranch, dirty |-> FALSE]

\* A started session that has not been attached: one live stream, no worker.
NoAttach ==
    [handleCh |-> FALSE, attachCh |-> "none", closes |-> 0, atClose |-> <<>>,
     window |-> "none", ptmx |-> 1, closedStreams |-> {}, oldClosed |-> FALSE,
     restored |-> FALSE,
     worker |-> "none", workerStream |-> 0, warned |-> FALSE, cancelled |-> FALSE,
     joined |-> FALSE, reader |-> "none", forwarded |-> <<>>, reads |-> 0,
     attaches |-> 0, crashed |-> FALSE, app |-> "default"]

\* No overlay, no error shown, no hideErrMsg on its way; ran counts the runs of
\* the action of the overlay.
NoHome == [confirmationOverlay |-> <<>>, errBox |-> <<>>, hides |-> 0, ran |-> 0]

\* No message handled yet.
NoHit == [kind |-> "none", for |-> 0, target |-> 0, effect |-> "none"]

\* An empty list in the default state, nothing in flight, nothing saved.
NoEntry == [state |-> stateDefault, objs |-> <<>>, items |-> <<>>, selectedIdx |-> 0,
            cmds |-> <<>>, msgs |-> <<>>, asked |-> 0, saved |-> {}]

\* No instance and no session.
NoFleet == [server |-> {}, inst |-> <<>>]

\* No command runs off the event loop and no completion message waits.
NoCmd == [task |-> "none", pc |-> 0, err |-> NoErr]
NoMsg == [kind |-> "none", id |-> "", err |-> NoErr]

\* The operation op has run from the current state, left s and returned err.
Record(op, s, err) ==
    /\ Apply(s)
    /\ UNCHANGED <<globalFile, gsmState, projectFiles, fleet, att, home, entry>>
    /\ last' = [op |-> op, err |-> err, steps |-> s.steps, faults |-> s.faults,
                lost |-> s.lost, seen |-> s.seen,
                pre |-> IF op \in LifecycleOps THEN Before
                        ELSE IF op = "Tick" THEN TickBefore ELSE NoOp.pre]
    /\ prev' = IF last.op = "Pause" /\ last.err = NoErr
               THEN [op |-> "Pause", Status |-> last.pre.Status, Branch |-> last.pre.Branch,
                     dirty |-> last.pre.dirty]
               ELSE NoPrev

\* An operation of the event loop that starts no command and handles no message.
Done(op, s, err) ==
    /\ Record(op, s, err)
    /\ UNCHANGED <<bg, posted>>

\* The state after construction, but for the auto-yes flag of the command line
\* and the record of the last call.
FreshObjects ==
    /\ obj = FALSE
    /\ Title = ""
    /\ Branch = NoBranch
    /\ Status = Ready
    /\ started = FALSE
    /\ tmuxSession = FALSE
    /\ gitWorktree = FALSE
    /\ diffStats = "none"
    /\ AutoYes = FALSE
    /\ ptmx = FALSE
    /\ attachCh = FALSE
    /\ sessionExists = FALSE
    /\ worktreeExists = FALSE
    /\ branchExists = FALSE
    /\ dirty = FALSE
    /\ checkedOut = FALSE
    /\ appState = stateDefault
    /\ inList = FALSE
    /\ store = {}
    /\ killed = FALSE
    /\ extDeath = FALSE
    /\ bg = NoCmd
    /\ posted = NoMsg
    /\ globalFile = NoFile
    /\ gsmState = NotLoaded
    /\ projectFiles = [id \in ProjectIDs |-> <<>>]
    /\ fleet = NoFleet
    /\ att = NoAttach
    /\ home = NoHome
    /\ entry = NoEntry
    /\ created = 0

Fresh == FreshObjects /\ last = NoOp /\ prev = NoPrev

\* The application started without the auto-yes flag.
Init == Fresh /\ autoYes = FALSE

\* The application started with or without it.
InitAnyFlag == Fresh /\ autoYes \in BOOLEAN

\* NewInstance: a fresh object in Ready, not started, without handles.
NewInstance(s) ==
    [s EXCEPT !.obj = TRUE, !.Title = "", !.Branch = NoBranch, !.Status = Ready,
              !.started = FALSE, !.tmuxSession = FALSE, !.gitWorktree = FALSE,
              !.diffStats = "none", !.AutoYes = FALSE, !.ptmx = FALSE, !.attachCh = FALSE,
              !.killed = FALSE, !.extDeath = FALSE, !.created = @ + 1]

\* The sets of failure points an operation may meet.
Faults(points) == {f \in SUBSET points : Cardinality(f) <= MaxFaults}

\* The same when the operation gets as far as an external call; else no failure.
FaultsIf(reached, points) == IF reached THEN Faults(points) ELSE {{}}

\* The failure points of each operation.
StartFaults == {"NewGitWorktree", "Setup", "PtyNewSession", "Partial", "Timeout",
                "StartRestore", "PtyClose", "KillSession", "Cleanup"}
KillFaults == {"PtyClose", "KillSession", "Cleanup"}
PauseFaults == {"IsDirty", "Commit", "PtyClose", "Remove", "Prune"}
ResumeFaults == {"IsBranchCheckedOut", "Setup", "Restore", "PtyNewSession", "Timeout",
                 "StartRestore", "KillSession", "Cleanup"}

\* n: a new instance is added to the list and the name entry opens.
KeyNew ==
    /\ appState = stateDefault
    /\ ~inList
    /\ created < MaxCreated
    /\ Done("KeyNew", [NewInstance(Cur) EXCEPT !.inList = TRUE, !.appState = stateNew], NoErr)

\* A key of the name entry that edits the title.
TypeTitle ==
    /\ appState = stateNew
    /\ inList
    /\ \E title \in Titles :
          LET r == InstanceSetTitle(Cur, title)
          IN  Done("SetTitle", r.s, r.err)

\* Enter in the name entry: Start the instance, save the list, leave the entry.
SubmitName ==
    /\ appState = stateNew
    /\ inList
    /\ \E f \in Faults(StartFaults \cup {"Save"}) :
          IF Title = ""
          THEN Done("Start", Cur, <<"title cannot be empty">>)
          ELSE LET r == InstanceStart(Cur, TRUE, f)
               IN  IF Failed(r)
                   THEN Done("Start", [ListKill(r.s, f) EXCEPT !.appState = stateDefault], r.err)
                   ELSE LET w == StorageSaveInstances(r.s, {r.s.Title}, "Save" \in f)
                        IN  IF Failed(w)
                            THEN Done("Start", w.s, NoErr)
                            ELSE Done("Start", [w.s EXCEPT !.appState = stateDefault,
                                                           !.AutoYes = @ \/ w.s.autoYes], NoErr)

\* Esc or ctrl+c in the name entry: the new instance is dropped.
CancelName ==
    /\ appState = stateNew
    /\ inList
    /\ \E f \in FaultsIf(started, KillFaults) :
          LET r == InstanceKill(Cur, f)
          IN  Done("Kill", [ListKill(Cur, f) EXCEPT !.appState = stateDefault], r.err)

\* D, confirmed: the record is deleted from the store, then the instance is killed.
KillAction ==
    /\ appState = stateDefault
    /\ inList
    /\ \E f \in Faults(KillFaults \cup {"IsBranchCheckedOut", "Delete"}) :
          LET w == InstanceGetGitWorktree(Cur)
              b == GitWorktreeIsBranchCheckedOut(Cur, "IsBranchCheckedOut" \in f)
              d == StorageDeleteInstance(b.s, Title, "Delete" \in f)
          IN  IF w # NoErr THEN Done("KillAction", Cur, w)
              ELSE IF Failed(b) THEN Done("KillAction", b.s, b.err)
              ELSE IF b.val THEN Done("KillAction", b.s, <<"instance is currently checked out">>)
              ELSE IF Failed(d) THEN Done("KillAction", d.s, d.err)
              ELSE Done("Kill", ListKill(d.s, f), InstanceKill(d.s, f).err)

\* The holder of the object calls Kill on it.
Kill ==
    /\ obj
    /\ ~inList
    /\ \E f \in FaultsIf(started, KillFaults) :
          LET r == InstanceKill(Cur, f)
          IN  Done("Kill", r.s, r.err)

\* c: the selected instance is paused.
Pause ==
    /\ obj
    /\ inList => appState = stateDefault
    /\ \E f \in FaultsIf(started /\ Status # Paused, PauseFaults) :
          LET r == InstancePause(Cur, f)
          IN  Done("Pause", r.s, r.err)

\* r: the selected instance is resumed.
Resume ==
    /\ obj
    /\ inList => appState = stateDefault
    /\ \E f \in FaultsIf(started /\ Status = Paused, ResumeFaults) :
          LET r == InstanceResume(Cur, f)
          IN  Done("Resume", r.s, r.err)

\* Enter: the selected instance is attached; Attach returns the channel at once.
Attach ==
    /\ obj
    /\ ~attachCh
    /\ inList => (appState = stateDefault /\ Status # Paused /\ DoesSessionExist(Cur))
    /\ LET r == InstanceAttach(Cur)
       IN  Done("Attach", r.s, r.err)

\* Ctrl-Q while attached.
Detach ==
    /\ obj
    /\ attachCh
    /\ ptmx
    /\ Done("Detach", TmuxSessionDetach(Cur), NoErr)

ProbeOps == {"Preview", "SendPrompt", "SetPreviewSize", "GetGitWorktree"}

\* A call that reads the instance and changes nothing.
Probe ==
    /\ obj
    /\ \E op \in ProbeOps, f \in FaultsIf(started /\ Status # Paused, {"Capture"}) :
          Done(op, Cur,
               CASE op = "Preview" -> InstancePreview(Cur, f)
                 [] op = "SendPrompt" -> InstanceSendPrompt(Cur)
                 [] op = "SetPreviewSize" -> InstanceSetPreviewSize(Cur)
                 [] op = "GetGitWorktree" -> InstanceGetGitWorktree(Cur))

RecoveryFaults == {"Capture", "PtyNewSession", "Partial", "Timeout", "StartRestore",
                   "PtyClose", "KillSession"}

\* The preview tick: the preview pane shows the selected instance.
PreviewRefresh ==
    /\ inList
    /\ \E f \in FaultsIf(started /\ Status \notin {Paused, Error},
                        IF sessionExists THEN {"Capture"} ELSE RecoveryFaults) :
          LET r == UpdateContent(Cur, f)
          IN  Done("PreviewRefresh", r.s, r.err)

\* The metadata tick.
Tick ==
    /\ inList
    /\ IF started /\ Status # Paused
       THEN \E seen \in {"updated", "prompt", "idle"}, f \in Faults({"Capture", "Diff"}) :
               Done("Tick", TickInstance(Cur, seen, f), NoErr)
       ELSE Done("Tick", TickInstance(Cur, "idle", {}), NoErr)

\* The agent in the session edits files of the worktree.
AgentEdits ==
    /\ started
    /\ sessionExists
    /\ worktreeExists
    /\ ~dirty
    /\ Done("Env", [Cur EXCEPT !.dirty = TRUE], NoErr)

\* The operator checks the branch out in the main repository, or leaves it again.
UserCheckout ==
    /\ started
    /\ branchExists
    /\ ~worktreeExists
    /\ Done("Env", [Cur EXCEPT !.checkedOut = ~@], NoErr)

\* The session ends from outside: the program in it exits, or tmux is killed.
SessionDies ==
    /\ started
    /\ sessionExists
    /\ Done("Env", [Cur EXCEPT !.sessionExists = FALSE, !.extDeath = TRUE], NoErr)

Next ==
    \/ KeyNew
    \/ PreviewRefresh
    \/ TypeTitle
    \/ SubmitName
    \/ CancelName
    \/ KillAction
    \/ Kill
    \/ Pause
    \/ Resume
    \/ Attach
    \/ Detach
    \/ Probe
    \/ Tick
    \/ AgentEdits
    \/ UserCheckout
    \/ SessionDies

Spec == Init /\ [][Next]_vars

\* The instances the metadata tick meets, with and without auto-yes.
NextTick ==
    \/ KeyNew
    \/ TypeTitle
    \/ SubmitName
    \/ KillAction
    \/ Pause
    \/ PreviewRefresh
    \/ Tick
    \/ AgentEdits
    \/ SessionDies

SpecTick == InitAnyFlag /\ [][NextTick]_vars

(***************************************************************************)
(* The name entry with a non-ASCII title: translation and Start run as     *)
(* commands off the event loop and rejoin it through completion messages.  *)
(***************************************************************************)

MaxASCII == 127

\* Titles the operator may type, one of them not ASCII, and the identifiers the
\* translator or its timestamp fallback may return.
AsyncTitles == {"", "feat", "uni"}
TranslatedIDs == {"feat", "session-1"}

\* The code points of the model's titles.
Runes(title) ==
    CASE title = "" -> <<>>
      [] title = "feat" -> <<102, 101, 97, 116>>
      [] title = "uni" -> <<20013, 25991>>
      [] title = "session-1" -> <<115, 101, 115, 115, 105, 111, 110, 45, 49>>

HasNonASCII(title) == \E i \in 1..Len(Runes(title)) : Runes(title)[i] > MaxASCII

\* The model follows one command at a time.
BgIdle == bg = NoCmd /\ posted = NoMsg

\* The fields of the Instance object.
InstanceFields == <<Title, Branch, Status, started, tmuxSession, gitWorktree, AutoYes>>

AsyncKeyNew == BgIdle /\ KeyNew

\* A key of the name entry that edits the title.
AsyncTypeTitle ==
    /\ appState = stateNew
    /\ inList
    /\ \E title \in AsyncTitles :
          LET r == InstanceSetTitle(Cur, title)
          IN  Done("SetTitle", r.s, r.err)

\* Enter in the name entry: an ASCII title is started at once; any other is
\* marked Translating and handed to the translation command.
AsyncSubmitName ==
    /\ appState = stateNew
    /\ inList
    /\ \/ ~HasNonASCII(Title) /\ SubmitName
       \/ /\ HasNonASCII(Title)
          /\ BgIdle
          /\ Record("Translate", [Cur EXCEPT !.Status = Translating], NoErr)
          /\ bg' = [task |-> "translate", pc |-> 0, err |-> NoErr]
          /\ posted' = posted

\* The translation command ends: the translated identifier, or the fallback.
TranslateEnds ==
    /\ bg.task = "translate"
    /\ \E id \in TranslatedIDs :
          /\ Record("TranslateEnds", Cur, NoErr)
          /\ bg' = NoCmd
          /\ posted' = [kind |-> "translation", id |-> id, err |-> NoErr]

\* translationCompleteMsg: set the title and hand Start to a command.
TranslationComplete ==
    /\ posted.kind = "translation"
    /\ posted' = NoMsg
    /\ IF ~inList
       THEN Record("TranslationComplete", Cur, NoErr) /\ bg' = bg
       ELSE LET r == InstanceSetTitle(Cur, posted.id)
            IN  /\ Record("TranslationComplete", r.s, r.err)
                /\ bg' = IF Failed(r) THEN bg
                         ELSE [task |-> "start", pc |-> 0, err |-> NoErr]

\* The start command begins: index check, then Start up to the worktree handle.
BgStartBegin ==
    /\ bg.task = "start" /\ bg.pc = 0
    /\ IF ~inList
       THEN /\ Record("BgStartBegin", Cur, NoErr)
            /\ bg' = NoCmd
            /\ posted' = [kind |-> "start", id |-> "", err |-> <<"invalid instance index">>]
       ELSE \E f \in Faults({"NewGitWorktree"}) :
               LET r == StartHead(Cur, f)
               IN  /\ Record("BgStartBegin", r.s, r.err)
                   /\ bg' = IF Failed(r) THEN NoCmd ELSE [bg EXCEPT !.pc = 1]
                   /\ posted' = IF Failed(r)
                             THEN [kind |-> "start", id |-> "", err |-> r.err] ELSE posted

\* The start command goes on: worktree setup and session start.
BgStartBody ==
    /\ bg.task = "start" /\ bg.pc = 1
    /\ \E f \in Faults(StartFaults \ {"NewGitWorktree"}) :
          LET r == StartBody(Cur, TRUE, f)
          IN  /\ Record("BgStartBody", r.s, r.err)
              /\ bg' = [bg EXCEPT !.pc = 2, !.err = r.err]
              /\ posted' = posted

\* The start command ends: status, deferred handler, completion message.
BgStartEnd ==
    /\ bg.task = "start" /\ bg.pc = 2
    /\ \E f \in Faults(KillFaults) :
          LET r == StartDeferred(Cur, bg.err, f)
          IN  /\ Record("BgStartEnd", r.s, r.err)
              /\ bg' = NoCmd
              /\ posted' = [kind |-> "start", id |-> "", err |-> r.err]

\* instanceStartCompleteMsg: drop the instance on failure; else save and leave
\* the name entry.
StartComplete ==
    /\ posted.kind = "start"
    /\ posted' = NoMsg
    /\ bg' = bg
    /\ IF ~inList
       THEN Record("StartComplete", Cur, NoErr)
       ELSE IF posted.err # NoErr
       THEN \E f \in Faults(KillFaults) :
               Record("StartComplete", [ListKill(Cur, f) EXCEPT !.appState = stateDefault],
                      posted.err)
       ELSE \E fail \in BOOLEAN :
               LET w == StorageSaveInstances(Cur, {Title}, fail)
               IN  IF Failed(w)
                   THEN Record("StartComplete", w.s, NoErr)
                   ELSE Record("StartComplete",
                               [w.s EXCEPT !.appState = stateDefault,
                                           !.AutoYes = @ \/ w.s.autoYes], NoErr)

BgOps == {"TranslateEnds", "BgStartBegin", "BgStartBody", "BgStartEnd"}

NextAsync ==
    \/ AsyncKeyNew
    \/ AsyncTypeTitle
    \/ AsyncSubmitName
    \/ TranslateEnds
    \/ TranslationComplete
    \/ BgStartBegin
    \/ BgStartBody
    \/ BgStartEnd
    \/ StartComplete
    \/ CancelName
    \/ Tick

SpecAsync == Init /\ [][NextAsync]_vars

(***************************************************************************)
(* Calls on the global store                                               *)
(***************************************************************************)

StoreCur == [globalFile |-> globalFile, gsmState |-> gsmState, projectFiles |-> projectFiles]

\* The variables a store operation leaves alone.
instanceVars ==
    <<obj, Title, Branch, Status, started, tmuxSession, gitWorktree, diffStats, AutoYes,
      ptmx, attachCh, sessionExists, worktreeExists, branchExists, dirty, checkedOut,
      appState, autoYes, inList, store, killed, extDeath, created>>

\* Calls of one run in which a read or a write of a file fails.
MaxFailedCalls == 2

\* The store operation op, called under the failures f with arg, has left the
\* stores t and returned err.
StoreDone(op, f, arg, t, err) ==
    /\ globalFile' = t.globalFile
    /\ gsmState' = t.gsmState
    /\ projectFiles' = t.projectFiles
    /\ last' = [op |-> op, arg |-> arg, err |-> err,
                failedCalls |-> last.failedCalls + (IF f = {} THEN 0 ELSE 1)]
    /\ prev' = NoPrev
    /\ UNCHANGED <<instanceVars, bg, posted, fleet, att, home, entry>>

NoCall == [op |-> "none", arg |-> [id |-> "", known |-> FALSE], err |-> NoErr,
           failedCalls |-> 0]

InitStore == FreshObjects /\ autoYes = FALSE /\ last = NoCall /\ prev = NoPrev

\* The failures a store call may meet.
StoreFaults(points) == IF last.failedCalls < MaxFailedCalls THEN Faults(points) ELSE {{}}

\* What the manager works on: its cached state, or what it would load.
Memory == IF gsmState.loaded THEN gsmState.state ELSE globalFile.state

\* The project of that id is in the state the manager has, or gets, under f.
Registered(projectID, f) ==
    ProjectIndex(GetOrCreateGlobalState(StoreCur, "Read" \in f).gsmState.state.Projects,
                 projectID) > 0

AddProjectCall ==
    \E p \in RepoPaths, now \in Times, f \in StoreFaults({"Read", "Write"}) :
       LET r == AddProject(StoreCur, GenerateProjectID(p), Base(p), p, now, f)
       IN  StoreDone("AddProject", f,
                     [id |-> GenerateProjectID(p), known |-> Registered(GenerateProjectID(p), f)],
                     r.s, r.err)

UpdateProjectInstanceCountCall ==
    \E p \in RepoPaths, count \in {1}, now \in Times, f \in StoreFaults({"Read", "Write"}) :
       LET r == UpdateProjectInstanceCount(StoreCur, GenerateProjectID(p), count, now, f)
       IN  StoreDone("UpdateProjectInstanceCount", f,
                     [id |-> GenerateProjectID(p), known |-> Registered(GenerateProjectID(p), f)],
                     r.s, r.err)

RemoveProjectCall ==
    \E p \in RepoPaths, f \in StoreFaults({"Read", "Write"}) :
       LET r == RemoveProject(StoreCur, GenerateProjectID(p), f)
       IN  StoreDone("RemoveProject", f,
                     [id |-> GenerateProjectID(p), known |-> Registered(GenerateProjectID(p), f)],
                     r.s, r.err)

SetHelpScreensSeenCall ==
    \E seen \in {1}, f \in StoreFaults({"Read", "Write"}) :
       LET r == SetHelpScreensSeen(StoreCur, seen, f)
       IN  StoreDone("SetHelpScreensSeen", f, [id |-> "", known |-> FALSE], r.s, r.err)

\* GetCurrentProjectManager for the repository root p: the project is added
\* when the global store has none of its id.
GetCurrentProjectManager(t, p, now, f) ==
    LET g == GetProject(t, GenerateProjectID(p), "Read" \in f)
    IN  IF g.found
        THEN Res(g.s, NoErr)
        ELSE LET r == AddProject(g.s, GenerateProjectID(p), Base(p), p, now, f)
             IN  IF Failed(r) THEN Res(r.s, Wrap("failed to add project", r.err)) ELSE r

Route ==
    \E p \in RepoPaths, now \in Times, f \in StoreFaults({"Read", "Write"}) :
       LET r == GetCurrentProjectManager(StoreCur, p, now, f)
       IN  StoreDone("Route", f,
                     [id |-> GenerateProjectID(p), known |-> Registered(GenerateProjectID(p), f)],
                     r.s, r.err)

\* A new manager: nothing is cached.
NewGlobalStateManager ==
    /\ gsmState.loaded
    /\ StoreDone("NewGlobalStateManager", {}, [id |-> "", known |-> FALSE],
                 [StoreCur EXCEPT !.gsmState = NotLoaded], NoErr)

NextGlobal ==
    \/ AddProjectCall
    \/ UpdateProjectInstanceCountCall
    \/ RemoveProjectCall
    \/ SetHelpScreensSeenCall
    \/ Route
    \/ NewGlobalStateManager

SpecGlobal == InitStore /\ [][NextGlobal]_vars

(***************************************************************************)
(* The name of an instance's tmux session.  A string is the sequence of    *)
(* its characters.                                                         *)
(***************************************************************************)

\* Characters of the strings tried.
MaxLen == 3

\* The strings of at most n characters out of chars.
Strings(chars, n) == UNION {[1..k -> chars] : k \in 0..n}

\* The variables a computation on strings leaves alone.
otherVars == <<instanceVars, bg, posted, globalFile, gsmState, projectFiles, prev>>

\* TmuxPrefix
TmuxPrefix == <<"c", "l", "a", "u", "d", "e", "s", "q", "u", "a", "d", "_">>

\* What \s of whiteSpaceRegex matches.
WhiteSpace == {" ", "\t", "\n", "\f", "\r"}

\* toClaudeSquadTmuxName: every run of white space replaced by nothing, every
\* "." by "_", and the prefix put before the result.
toClaudeSquadTmuxName(str) ==
    LET stripped == SelectSeq(str, LAMBDA c : c \notin WhiteSpace)
    IN  TmuxPrefix \o [i \in 1..Len(stripped) |-> IF stripped[i] = "." THEN "_" ELSE stripped[i]]

\* The characters of the titles tried.
NameChars == {"a", "Z", "7", "_", ".", " ", "\t", "-"}

NoName == [op |-> "none", in |-> <<>>, out |-> <<>>, again |-> <<>>]

\* NewTmuxSession(name, program): the sanitized name of a title.
SanitizeName ==
    /\ last.op = "none"
    /\ \E str \in Strings(NameChars, MaxLen) :
          last' = [op |-> "sanitize", in |-> str, out |-> toClaudeSquadTmuxName(str),
                   again |-> <<>>]
    /\ UNCHANGED <<otherVars, fleet, att, home, entry>>

\* The sanitized name is sanitized once more.
SanitizeAgain ==
    /\ last.op = "sanitize"
    /\ last' = [last EXCEPT !.op = "sanitize again", !.again = toClaudeSquadTmuxName(last.out)]
    /\ UNCHANGED <<otherVars, fleet, att, home, entry>>

NextSanitize ==
    \/ SanitizeName
    \/ SanitizeAgain

InitSanitize == FreshObjects /\ autoYes = FALSE /\ prev = NoPrev /\ last = NoName

SpecSanitize == InitSanitize /\ [][NextSanitize]_vars

(***************************************************************************)
(* Several instances on one tmux server.  Each has the handle of the       *)
(* session of its own sanitized name; the server holds sessions by name.   *)
(***************************************************************************)

\* Instances of one run.
MaxInstances == 2

\* The titles and the repositories of the instances.
FleetTitles == {<<"a", "b">>, <<"a", " ", "b">>, <<"a", ".", "b">>, <<"a", "_", "b">>}

\* The name of the session of instance i.
SessionName(i) == toClaudeSquadTmuxName(fleet.inst[i].title)

\* The handle of instance i with what the server holds under its name.
Handle(i) ==
    [sessionExists |-> SessionName(i) \in fleet.server, ptmx |-> fleet.inst[i].ptmx,
     extDeath |-> FALSE, steps |-> <<>>, faults |-> {}]

\* The server after a call through the handle of instance i has left s.
Server(i, s) ==
    IF s.sessionExists THEN fleet.server \cup {SessionName(i)}
    ELSE fleet.server \ {SessionName(i)}

\* A call on instance i has left the handle s, set the flags and returned err.
FleetDone(op, i, s, isStarted, isKilled, err) ==
    /\ fleet' = [server |-> Server(i, s),
                 inst |-> [fleet.inst EXCEPT ![i].ptmx = s.ptmx, ![i].started = isStarted,
                                             ![i].killed = isKilled]]
    /\ last' = [op |-> op, i |-> i, err |-> err]
    /\ UNCHANGED <<otherVars, att, home, entry>>

\* An instance is made and added to its project's store, which refuses a title
\* it holds already (AddInstance).
FleetNew ==
    /\ Len(fleet.inst) < MaxInstances
    /\ \E title \in FleetTitles, project \in RepoPaths :
          /\ \A i \in 1..Len(fleet.inst) :
                fleet.inst[i].project = project => fleet.inst[i].title # title
          /\ fleet' = [fleet EXCEPT !.inst = Append(@, [title |-> title, project |-> project,
                                                        ptmx |-> FALSE, started |-> FALSE,
                                                        stored |-> FALSE, killed |-> FALSE])]
          /\ last' = [op |-> "New", i |-> Len(fleet.inst) + 1, err |-> NoErr]
    /\ UNCHANGED <<otherVars, att, home, entry>>

\* Start(true) of instance i, as far as its session goes.
FleetStart ==
    \E i \in 1..Len(fleet.inst) :
       /\ ~fleet.inst[i].started
       /\ ~fleet.inst[i].stored
       /\ \E r \in {TmuxSessionStart(Handle(i), {})} :
             FleetDone("Start", i, r.s, ~Failed(r), FALSE, r.err)

\* The machine restarts: the tmux server and its sessions are gone and the
\* started instances are left as the records of their stores.
FleetReboot ==
    /\ \E i \in 1..Len(fleet.inst) : fleet.inst[i].started /\ ~fleet.inst[i].killed
    /\ fleet' = [server |-> {},
                 inst |-> [i \in 1..Len(fleet.inst) |->
                             [fleet.inst[i] EXCEPT !.ptmx = FALSE, !.started = FALSE,
                                                   !.stored = @ \/ (fleet.inst[i].started
                                                                     /\ ~fleet.inst[i].killed)]]]
    /\ last' = [op |-> "Reboot", i |-> 0, err |-> NoErr]
    /\ UNCHANGED <<otherVars, att, home, entry>>

\* FromInstanceData of the record of instance i when its program starts
\* again: Start(false), which attaches to the session of that name.
FleetRestore ==
    \E i \in 1..Len(fleet.inst) :
       /\ fleet.inst[i].stored
       /\ ~fleet.inst[i].started
       /\ ~fleet.inst[i].killed
       /\ \E r \in {TmuxSessionRestore(Handle(i), FALSE)} :
             FleetDone("Restore", i, r.s, ~Failed(r), FALSE, r.err)

\* Kill of instance i, as far as its session goes: Close.
FleetKill ==
    \E i \in 1..Len(fleet.inst) :
       /\ fleet.inst[i].started
       /\ ~fleet.inst[i].killed
       /\ \E r \in {TmuxSessionClose(Handle(i), {})} :
             FleetDone("Kill", i, r.s, TRUE, TRUE, r.err)

NextFleet ==
    \/ FleetNew
    \/ FleetStart
    \/ FleetReboot
    \/ FleetRestore
    \/ FleetKill

NoFleetCall == [op |-> "none", i |-> 0, err |-> NoErr]

InitFleet == FreshObjects /\ autoYes = FALSE /\ prev = NoPrev /\ last = NoFleetCall

SpecFleet == InitFleet /\ [][NextFleet]_vars

(***************************************************************************)
(* The record of an instance: ToInstanceData, FromInstanceData and          *)
(* ToInstanceData again.  A nil pointer is the empty sequence, a pointer    *)
(* the sequence of the one value it points to.                             *)
(***************************************************************************)

\* The zero values of the worktree record and of the diff stats record.
NoWorktreeData ==
    [RepoPath |-> "", WorktreePath |-> "", SessionName |-> "", BranchName |-> "",
     BaseCommitSHA |-> ""]
NoDiffStatsData == [Added |-> 0, Removed |-> 0, Content |-> ""]

\* The started instances that are serialized; a started instance has a worktree.
SavedInstances ==
    [Title : {"feat"}, DisplayName : {"feat", "Feature"}, Path : {"/r/a"}, Branch : {"s/feat"},
     Status : {Running, Ready, Loading, Paused}, Height : {0, 24}, Width : {80},
     CreatedAt : {1}, UpdatedAt : {1}, Program : {"claude", "aider"}, AutoYes : BOOLEAN,
     started : {TRUE},
     gitWorktree : {<< [repoPath |-> "/r/a", worktreePath |-> "/w/feat",
                            sessionName |-> "feat", branchName |-> "s/feat",
                            baseCommitSHA |-> "c0"] >>},
     diffStats : {<<>>, << [Added |-> 2, Removed |-> 1, Content |-> "+a"] >>}]

\* ToInstanceData at the time now.
ToInstanceData(i, now) ==
    [Title |-> i.Title, DisplayName |-> i.DisplayName, Path |-> i.Path, Branch |-> i.Branch,
     Status |-> i.Status, Height |-> i.Height, Width |-> i.Width, CreatedAt |-> i.CreatedAt,
     UpdatedAt |-> now, Program |-> i.Program, AutoYes |-> i.AutoYes,
     Worktree |-> IF i.gitWorktree # <<>>
                  THEN [RepoPath |-> i.gitWorktree[1].repoPath,
                        WorktreePath |-> i.gitWorktree[1].worktreePath,
                        SessionName |-> i.Title,
                        BranchName |-> i.gitWorktree[1].branchName,
                        BaseCommitSHA |-> i.gitWorktree[1].baseCommitSHA]
                  ELSE NoWorktreeData,
     DiffStats |-> IF i.diffStats # <<>>
                   THEN [Added |-> i.diffStats[1].Added, Removed |-> i.diffStats[1].Removed,
                         Content |-> i.diffStats[1].Content]
                   ELSE NoDiffStatsData]

\* The fields FromInstanceData copies; AutoYes is left at its zero value.
FromFields(data) ==
    [Title |-> data.Title,
     DisplayName |-> IF data.DisplayName = "" THEN data.Title ELSE data.DisplayName,
     Path |-> data.Path, Branch |-> data.Branch, Status |-> data.Status,
     Height |-> data.Height, Width |-> data.Width, CreatedAt |-> data.CreatedAt,
     UpdatedAt |-> data.UpdatedAt, Program |-> data.Program, AutoYes |-> FALSE,
     started |-> FALSE,
     gitWorktree |-> << [repoPath |-> data.Worktree.RepoPath,
                         worktreePath |-> data.Worktree.WorktreePath,
                         sessionName |-> data.Worktree.SessionName,
                         branchName |-> data.Worktree.BranchName,
                         baseCommitSHA |-> data.Worktree.BaseCommitSHA] >>,
     diffStats |-> << [Added |-> data.DiffStats.Added, Removed |-> data.DiffStats.Removed,
                       Content |-> data.DiffStats.Content] >>]

\* FromInstanceData: a paused record becomes a started instance with a session
\* handle; any other record is started with Start(false), and no instance is
\* returned when that fails (the empty sequence).
FromInstanceData(data, f) ==
    LET i == FromFields(data)
    IN  IF i.Status = Paused
        THEN Res(<< [i EXCEPT !.started = TRUE] >>, NoErr)
        ELSE LET r == InstanceStart([Cur EXCEPT !.obj = TRUE, !.Title = i.Title,
                                                !.Status = i.Status, !.gitWorktree = TRUE],
                                    FALSE, f)
             IN  IF Failed(r) THEN Res(<<>>, r.err)
                 ELSE Res(<< [i EXCEPT !.Status = r.s.Status, !.started = r.s.started] >>, NoErr)

NoRecord == [op |-> "none", inst |-> <<>>, first |-> <<>>, back |-> <<>>, second |-> <<>>,
             err |-> NoErr]

\* A started instance is serialized.
ToInstanceDataCall ==
    /\ last.op = "none"
    /\ \E i \in SavedInstances :
          last' = [NoRecord EXCEPT !.op = "ToInstanceData", !.inst = <<i>>,
                                   !.first = << ToInstanceData(i, 2) >>]
    /\ UNCHANGED <<otherVars, fleet, att, home, entry>>

\* The record is deserialized.
FromInstanceDataCall ==
    /\ last.op = "ToInstanceData"
    /\ \E f \in Faults({"Restore"}) :
          \E r \in {FromInstanceData(last.first[1], f)} :
             last' = [last EXCEPT !.op = "FromInstanceData", !.back = r.s, !.err = r.err]
    /\ UNCHANGED <<otherVars, fleet, att, home, entry>>

\* The instance that came back is serialized.
ToInstanceDataAgain ==
    /\ last.op = "FromInstanceData"
    /\ last.back # <<>>
    /\ last' = [last EXCEPT !.op = "ToInstanceData again",
                            !.second = << ToInstanceData(last.back[1], 3) >>]
    /\ UNCHANGED <<otherVars, fleet, att, home, entry>>

NextRoundTrip ==
    \/ ToInstanceDataCall
    \/ FromInstanceDataCall
    \/ ToInstanceDataAgain

InitRoundTrip == FreshObjects /\ autoYes = FALSE /\ prev = NoPrev /\ last = NoRecord

SpecRoundTrip == InitRoundTrip /\ [][NextRoundTrip]_vars

(***************************************************************************)
(* The identifier made of a translation.  A string is the sequence of its  *)
(* characters.                                                             *)
(***************************************************************************)

\* The longest translation.
MaxIdent == 4

\* The characters of a translation: letters of both cases, a digit, the hyphen,
\* the underscore, the space and one character outside the safe set.
IdentChars == {"a", "Z", "7", "-", "_", " ", "."}

\* strings.ToLower on one character.
ToLower(c) == IF c = "Z" THEN "z" ELSE c

\* [a-z0-9\-_]
SafeChars == {"a", "z", "7", "-", "_"}

\* -+ replaced by one hyphen.
RECURSIVE CollapseHyphens(_)
CollapseHyphens(str) ==
    IF Len(str) < 2 THEN str
    ELSE IF str[1] = "-" /\ str[2] = "-" THEN CollapseHyphens(Tail(str))
    ELSE <<str[1]>> \o CollapseHyphens(Tail(str))

\* strings.Trim(s, "-")
RECURSIVE TrimHyphens(_)
TrimHyphens(str) ==
    IF Len(str) = 0 THEN str
    ELSE IF str[1] = "-" THEN TrimHyphens(Tail(str))
    ELSE IF str[Len(str)] = "-" THEN TrimHyphens(SubSeq(str, 1, Len(str) - 1))
    ELSE str

sanitizeIdentifier(str) ==
    LET lower == [i \in 1..Len(str) |-> ToLower(str[i])]
        hyphened == [i \in 1..Len(lower) |-> IF lower[i] = " " THEN "-" ELSE lower[i]]
        safe == SelectSeq(hyphened, LAMBDA c : c \in SafeChars)
    IN  TrimHyphens(CollapseHyphens(safe))

\* A translation is sanitized.
SanitizeIdentifier ==
    /\ last.op = "none"
    /\ \E str \in Strings(IdentChars, MaxIdent) :
          last' = [NoName EXCEPT !.op = "sanitizeIdentifier", !.in = str,
                                 !.out = sanitizeIdentifier(str)]
    /\ UNCHANGED <<otherVars, fleet, att, home, entry>>

\* The identifier is sanitized once more.
SanitizeIdentifierAgain ==
    /\ last.op = "sanitizeIdentifier"
    /\ last' = [last EXCEPT !.op = "sanitizeIdentifier again",
                            !.again = sanitizeIdentifier(last.out)]
    /\ UNCHANGED <<otherVars, fleet, att, home, entry>>

NextIdentifier ==
    \/ SanitizeIdentifier
    \/ SanitizeIdentifierAgain

InitIdentifier == FreshObjects /\ autoYes = FALSE /\ prev = NoPrev /\ last = NoName

SpecIdentifier == InitIdentifier /\ [][NextIdentifier]_vars

(***************************************************************************)
(* The relay of an attached session.  Attach starts a worker that copies   *)
(* the live stream to stdout, a worker that reads stdin and owns Detach,   *)
(* and the timer of the startup window.  Streams are numbered; t.ptmx is   *)
(* the number of the live one.  The event loop waits on the done-channel.  *)
(***************************************************************************)

\* Attaches of one run, reads of one attach, bytes of one read.
MaxAttaches == 2
MaxReads == 2
MaxChunk == 2

\* Ctrl+q and the letter a.
CtrlQ == 17
Bytes == {CtrlQ, 97}

\* What one Read of stdin returns.
Chunks == UNION {[1..k -> Bytes] : k \in 1..MaxChunk}

\* The detach key as it would be if any byte of a read could be Ctrl+q.
AnyCtrlQ(chunk) == \E i \in 1..Len(chunk) : chunk[i] = CtrlQ

\* nr == 1 && buf[0] == 17
IsDetachKey(chunk) == Len(chunk) = 1 /\ chunk[1] = CtrlQ

AttachDone(op, a, chunk) ==
    /\ att' = a
    /\ last' = [op |-> op, chunk |-> chunk]
    /\ UNCHANGED <<otherVars, fleet, home, entry>>

\* Attach, called by the event loop, which then waits on the channel.
AttachCall ==
    /\ ~att.crashed
    /\ att.app = "default"
    /\ att.attaches < MaxAttaches
    /\ AttachDone("Attach",
                  [att EXCEPT !.handleCh = TRUE, !.attachCh = "open", !.closes = 0,
                              !.atClose = <<>>, !.window = "open", !.oldClosed = FALSE,
                              !.restored = FALSE,
                              !.worker = "spawned", !.workerStream = 0, !.warned = FALSE,
                              !.cancelled = FALSE, !.joined = FALSE, !.reader = "reading",
                              !.forwarded = <<>>, !.reads = 0, !.attaches = @ + 1,
                              !.app = "waiting"],
                  <<>>)

\* The timer closes timeoutCh after 50 ms.
WindowCloses ==
    /\ ~att.crashed
    /\ att.window = "open"
    /\ AttachDone("WindowCloses", [att EXCEPT !.window = "closed"], <<>>)

\* The copying worker begins io.Copy on the stream t.ptmx names at that time.
WorkerCopies ==
    /\ ~att.crashed
    /\ att.worker = "spawned"
    /\ AttachDone("WorkerCopies",
                  [att EXCEPT !.worker = "copying", !.workerStream = att.ptmx], <<>>)

\* io.Copy returns when its stream is closed; the worker warns unless the
\* context is cancelled, and leaves the wait group.
WorkerEnds ==
    /\ ~att.crashed
    /\ att.worker = "copying"
    /\ att.workerStream \in att.closedStreams
    /\ AttachDone("WorkerEnds",
                  [att EXCEPT !.worker = "done", !.warned = ~att.cancelled], <<>>)

\* One Read of stdin: discarded while the window is open; the detach key
\* begins Detach; anything else is written to the live stream.
ReadStdin ==
    /\ ~att.crashed
    /\ att.reader = "reading"
    /\ att.reads < MaxReads
    /\ \E chunk \in Chunks :
          AttachDone("Read",
                     IF att.window = "open"
                     THEN [att EXCEPT !.reads = @ + 1]
                     ELSE IF IsDetachKey(chunk)
                     THEN [att EXCEPT !.reads = @ + 1, !.reader = "Detach"]
                     ELSE [att EXCEPT !.reads = @ + 1, !.forwarded = Append(@, chunk)],
                     chunk)

\* Read returns io.EOF and the reading worker ends.
ReadEOF ==
    /\ ~att.crashed
    /\ att.reader = "reading"
    /\ AttachDone("ReadEOF", [att EXCEPT !.reader = "returned"], <<>>)

\* The deferred function of Detach: close(t.attachCh), and the fields are cleared.
DeferredClose(a) ==
    [a EXCEPT !.attachCh = "closed", !.closes = @ + 1, !.handleCh = FALSE,
              !.atClose = << [oldClosed |-> a.oldClosed,
                              restored |-> a.restored, cancelled |-> a.cancelled,
                              joined |-> a.joined] >>]

\* A fatal failure of Detach: the deferred function runs and the panic ends
\* the program.
DetachPanics(a) == [DeferredClose(a) EXCEPT !.crashed = TRUE, !.reader = "panicked"]

\* Detach: t.ptmx.Close().
DetachClose ==
    /\ ~att.crashed
    /\ att.reader = "Detach"
    /\ \E fail \in BOOLEAN :
          AttachDone("DetachClose",
                     IF fail THEN DetachPanics(att)
                     ELSE [att EXCEPT !.closedStreams = @ \cup {att.ptmx}, !.oldClosed = TRUE,
                                      !.reader = "Restore"],
                     <<>>)

\* Detach: t.Restore() sets a new live stream.
DetachRestore ==
    /\ ~att.crashed
    /\ att.reader = "Restore"
    /\ \E fail \in BOOLEAN :
          AttachDone("DetachRestore",
                     IF fail THEN DetachPanics(att)
                     ELSE [att EXCEPT !.ptmx = @ + 1, !.restored = TRUE, !.reader = "Cancel"],
                     <<>>)

\* Detach: t.cancel().
DetachCancel ==
    /\ ~att.crashed
    /\ att.reader = "Cancel"
    /\ AttachDone("DetachCancel", [att EXCEPT !.cancelled = TRUE, !.reader = "Wait"], <<>>)

\* Detach: t.wg.Wait() returns once the copying worker has left the group.
DetachWait ==
    /\ ~att.crashed
    /\ att.reader = "Wait"
    /\ att.worker = "done"
    /\ AttachDone("DetachWait", [att EXCEPT !.joined = TRUE, !.reader = "Deferred"], <<>>)

\* Detach returns: the deferred function runs and the reading worker ends.
DetachReturns ==
    /\ ~att.crashed
    /\ att.reader = "Deferred"
    /\ AttachDone("DetachReturns", [DeferredClose(att) EXCEPT !.reader = "returned"], <<>>)

\* The event loop receives from the closed channel and goes on.
AttachReturns ==
    /\ ~att.crashed
    /\ att.app = "waiting"
    /\ att.attachCh = "closed"
    /\ AttachDone("AttachReturns", [att EXCEPT !.app = "default"], <<>>)

NextAttach ==
    \/ AttachCall
    \/ WindowCloses
    \/ WorkerCopies
    \/ WorkerEnds
    \/ ReadStdin
    \/ ReadEOF
    \/ DetachClose
    \/ DetachRestore
    \/ DetachCancel
    \/ DetachWait
    \/ DetachReturns
    \/ AttachReturns

NoRead == [op |-> "none", chunk |-> <<>>]

InitAttach == FreshObjects /\ autoYes = FALSE /\ prev = NoPrev /\ last = NoRead

SpecAttach == InitAttach /\ [][NextAttach]_vars

(***************************************************************************)
(* The calls made on one session handle, in any order.                     *)
(***************************************************************************)

\* The pseudo-terminals Start opens and closes, in order: the one of
\* new-session is a local of Start, the one of attach-session becomes t.ptmx.
\* After a timeout and after a failed Restore, Close closes t.ptmx if there is one.
StartPtys(s, f) ==
    IF DoesSessionExist(s) THEN <<>>
    ELSE IF "PtyNewSession" \in f THEN <<>>
    ELSE IF "Timeout" \in f
    THEN <<"open new-session">> \o (IF s.ptmx THEN <<"close t.ptmx">> ELSE <<>>)
    ELSE <<"open new-session", "close new-session">>
            \o (IF "StartRestore" \in f
                THEN (IF s.ptmx THEN <<"close t.ptmx">> ELSE <<>>)
                ELSE <<"open attach-session">>)

\* Pseudo-terminals of new-session that Start calls of one run leave open.
MaxLeft == 2

\* The pseudo-terminals of new-session that a log opens and does not close.
LeftOpen(ptys) ==
    IF Len(SelectSeq(ptys, LAMBDA e : e = "open new-session"))
          > Len(SelectSeq(ptys, LAMBDA e : e = "close new-session"))
    THEN 1 ELSE 0

HandleFaults == {"PtyNewSession", "Partial", "Timeout", "StartRestore", "PtyClose", "KillSession"}

NoHandleCall ==
    [op |-> "none", err |-> NoErr, live |-> FALSE, ptys |-> <<>>, faults |-> {}, left |-> 0,
     pre |-> [ptmx |-> FALSE, attachCh |-> FALSE, sessionExists |-> FALSE]]

\* A call on the handle has left s and returned err; live tells that Start or
\* Restore has succeeded and Close has not been called since.
HandleDone(op, s, err, live, ptys) ==
    /\ Apply(s)
    /\ last' = [op |-> op, err |-> err, live |-> live, ptys |-> ptys, faults |-> s.faults,
                left |-> last.left + LeftOpen(ptys),
                pre |-> [ptmx |-> ptmx, attachCh |-> attachCh, sessionExists |-> sessionExists]]
    /\ UNCHANGED <<bg, posted, globalFile, gsmState, projectFiles, fleet, att, home, entry, prev>>

\* NewTmuxSession
HandleNew ==
    /\ ~tmuxSession
    /\ HandleDone("New", [Cur EXCEPT !.tmuxSession = TRUE], NoErr, FALSE, <<>>)

HandleStart ==
    /\ tmuxSession
    /\ ~attachCh
    /\ last.left < MaxLeft
    /\ \E f \in Faults(HandleFaults) :
          \E r \in {TmuxSessionStart(Cur, f)} :
             HandleDone("Start", r.s, r.err, IF Failed(r) THEN last.live /\ r.s.ptmx ELSE TRUE,
                        StartPtys(Cur, f))

HandleRestore ==
    /\ tmuxSession
    /\ ~attachCh
    /\ \E fail \in BOOLEAN :
          \E r \in {TmuxSessionRestore(Cur, fail)} :
             HandleDone("Restore", r.s, r.err, last.live \/ ~Failed(r), <<>>)

HandleAttach ==
    /\ tmuxSession
    /\ ptmx
    /\ ~attachCh
    /\ HandleDone("Attach", TmuxSessionAttach(Cur), NoErr, last.live, <<>>)

\* Detach reads t.ptmx and closes t.attachCh: both are there.
HandleDetach ==
    /\ tmuxSession
    /\ ptmx
    /\ attachCh
    /\ HandleDone("Detach", TmuxSessionDetach(Cur), NoErr, last.live, <<>>)

HandleDetachSafely ==
    /\ tmuxSession
    /\ \E f \in Faults({"PtyClose"}) :
          \E r \in {TmuxSessionDetachSafely(Cur, f)} :
             HandleDone("DetachSafely", r.s, r.err, last.live, <<>>)

HandleClose ==
    /\ tmuxSession
    /\ ~attachCh
    /\ \E f \in Faults({"PtyClose", "KillSession"}) :
          \E r \in {TmuxSessionClose(Cur, f)} :
             HandleDone("Close", r.s, r.err, FALSE, <<>>)

\* The session ends or appears outside the program.
HandleSessionChanges ==
    /\ tmuxSession
    /\ HandleDone("SessionChanges", [Cur EXCEPT !.sessionExists = ~sessionExists], NoErr,
                  last.live, <<>>)

NextHandle ==
    \/ HandleNew
    \/ HandleStart
    \/ HandleRestore
    \/ HandleAttach
    \/ HandleDetach
    \/ HandleDetachSafely
    \/ HandleClose
    \/ HandleSessionChanges

InitHandle == FreshObjects /\ autoYes = FALSE /\ prev = NoPrev /\ last = NoHandleCall

SpecHandle == InitHandle /\ [][NextHandle]_vars

(***************************************************************************)
(* The status monitor of a session handle: HasUpdated on the content of    *)
(* the pane.                                                               *)
(***************************************************************************)

\* HasUpdated calls of one run.
MaxCalls == 3

\* What the pane may show; the third is the prompt of claude.
PaneContents == {"out", "more out", "No, and tell Claude what to do differently", "other"}

\* sha256 of the content, as a number: different contents may have one hash.
Hash(content) ==
    CASE content = "out" -> 1
      [] content = "more out" -> 2
      [] content = "No, and tell Claude what to do differently" -> 3
      [] OTHER -> 1

\* HasUpdated as it would be if it did not keep the hash it has seen.
HasUpdatedForgetting(prevOutputHash, content, fail) ==
    IF fail
    THEN [prevOutputHash |-> prevOutputHash, updated |-> FALSE, hasPrompt |-> FALSE]
    ELSE [prevOutputHash |-> prevOutputHash,
          updated |-> <<Hash(content)>> # prevOutputHash,
          hasPrompt |-> content = "No, and tell Claude what to do differently"]

\* HasUpdated of a handle whose program is claude: (false, false) when the
\* capture fails; else the hash of the content is compared with the one kept
\* and kept when it differs.
HasUpdated(prevOutputHash, content, fail) ==
    IF fail
    THEN [prevOutputHash |-> prevOutputHash, updated |-> FALSE, hasPrompt |-> FALSE]
    ELSE IF <<Hash(content)>> # prevOutputHash
    THEN [prevOutputHash |-> <<Hash(content)>>, updated |-> TRUE,
          hasPrompt |-> content = "No, and tell Claude what to do differently"]
    ELSE [prevOutputHash |-> prevOutputHash, updated |-> FALSE,
          hasPrompt |-> content = "No, and tell Claude what to do differently"]

\* A handle just restored: newStatusMonitor, no hash kept.
NoMonitor ==
    [op |-> "none", content |-> "out", prevOutputHash |-> <<>>, updated |-> FALSE,
     hasPrompt |-> FALSE, calls |-> 0, same |-> FALSE, captured |-> FALSE,
     prevCaptured |-> FALSE]

\* The program in the session writes to the pane.
PaneChanges ==
    /\ \E c \in PaneContents \ {last.content} :
          last' = [last EXCEPT !.op = "PaneChanges", !.content = c, !.same = FALSE]
    /\ UNCHANGED <<otherVars, fleet, att, home, entry>>

\* One call of HasUpdated; same tells that the pane has not changed since the
\* call before it.
HasUpdatedCall ==
    /\ last.calls < MaxCalls
    /\ \E fail \in BOOLEAN :
          \E r \in {HasUpdated(last.prevOutputHash, last.content, fail)} :
             last' = [op |-> "HasUpdated", content |-> last.content,
                      prevOutputHash |-> r.prevOutputHash, updated |-> r.updated,
                      hasPrompt |-> r.hasPrompt, calls |-> last.calls + 1,
                      same |-> TRUE, captured |-> ~fail, prevCaptured |-> last.captured]
    /\ UNCHANGED <<otherVars, fleet, att, home, entry>>

NextMonitor ==
    \/ PaneChanges
    \/ HasUpdatedCall

InitMonitor == FreshObjects /\ autoYes = FALSE /\ prev = NoPrev /\ last = NoMonitor

SpecMonitor == InitMonitor /\ [][NextMonitor]_vars

(***************************************************************************)
(* The confirmation modal and the error box.  A key pressed in the default *)
(* state is taken at its second pass through handleMenuHighlighting, the   *)
(* one that handles it.                                                    *)
(***************************************************************************)

stateConfirm == "stateConfirm"

\* hideErrMsg commands on their way at one time.
MaxHides == 2

\* The keys pressed while the modal is shown.
ConfirmKeys == {"y", "n", "esc", "q", "enter"}

\* push: commit and push (package session/git).
GitWorktreePushChanges(s, fail) ==
    IF fail
    THEN Res(Fault(s, "Push"), <<"push">>)
    ELSE Res([s EXCEPT !.dirty = FALSE], NoErr)

\* killAction: the message it returns is an error or instanceChangedMsg.
killAction(s, f) ==
    LET w == InstanceGetGitWorktree(s)
        b == GitWorktreeIsBranchCheckedOut(s, "IsBranchCheckedOut" \in f)
        d == StorageDeleteInstance(b.s, s.Title, "Delete" \in f)
    IN  IF w # NoErr THEN Res(s, w)
        ELSE IF Failed(b) THEN Res(b.s, b.err)
        ELSE IF b.val THEN Res(b.s, <<"instance is currently checked out">>)
        ELSE IF Failed(d) THEN Res(d.s, d.err)
        ELSE Res(ListKill(d.s, f), NoErr)

\* pushAction: the message it returns is an error or nil.
pushAction(s, f) ==
    LET w == InstanceGetGitWorktree(s)
    IN  IF w # NoErr THEN Res(s, w)
        ELSE GitWorktreePushChanges(s, "Push" \in f)

\* HandleKeyPress of the overlay as it would be if Esc were no cancel key.
HandleKeyPressWithoutEsc(key) ==
    CASE key = "y" -> [close |-> TRUE, confirm |-> TRUE]
      [] key = "n" -> [close |-> TRUE, confirm |-> FALSE]
      [] OTHER -> [close |-> FALSE, confirm |-> FALSE]

\* ConfirmationOverlay.HandleKeyPress: whether the overlay closes and whether
\* OnConfirm is called.
HandleKeyPress(key) ==
    CASE key = "y" -> [close |-> TRUE, confirm |-> TRUE]
      [] key \in {"n", "esc"} -> [close |-> TRUE, confirm |-> FALSE]
      [] OTHER -> [close |-> FALSE, confirm |-> FALSE]

\* handleError: the error is shown and a hideErrMsg is on its way.
handleError(h, err) == [h EXCEPT !.errBox = err, !.hides = @ + 1]

\* A key of the application has been handled: the instance and the list are
\* left as s, the application as h; err is the error the operation met.
HomeDone(op, key, s, h, err) ==
    /\ Apply(s)
    /\ home' = h
    /\ last' = [op |-> op, key |-> key, err |-> err, faults |-> s.faults,
                pre |-> [appState |-> appState, home |-> home, store |-> store,
                         inList |-> inList, killed |-> killed, dirty |-> dirty]]
    /\ prev' = NoPrev
    /\ UNCHANGED <<bg, posted, globalFile, gsmState, projectFiles, fleet, att, entry>>

\* What a key of the modal may change of the instance, the list and the store.
instanceStateOfKeys ==
    <<obj, Title, Branch, Status, started, tmuxSession, gitWorktree, diffStats, AutoYes,
      ptmx, attachCh, sessionExists, worktreeExists, branchExists, dirty, checkedOut,
      inList, store, killed, extDeath>>

\* confirmAction
confirmAction(s, h, action) ==
    [s |-> [s EXCEPT !.appState = stateConfirm],
     h |-> [h EXCEPT !.confirmationOverlay = <<action>>, !.ran = 0]]

\* D on the selected instance: the modal asks whether to kill.
PressKill ==
    /\ appState = stateDefault
    /\ inList
    /\ \E c \in {confirmAction(Cur, home, "kill")} :
          HomeDone("KeyKill", "D", c.s, c.h, NoErr)

\* p on the selected instance: the modal asks whether to push.
PressSubmit ==
    /\ appState = stateDefault
    /\ inList
    /\ \E c \in {confirmAction(Cur, home, "push")} :
          HomeDone("KeySubmit", "p", c.s, c.h, NoErr)

\* A key while the modal is shown.  OnConfirm sets the state and calls the
\* action, whose message it drops; a closing key removes the overlay.
PressInConfirm ==
    /\ appState = stateConfirm
    /\ \E key \in ConfirmKeys, f \in Faults(KillFaults \cup {"IsBranchCheckedOut", "Delete", "Push"}) :
          \E k \in {HandleKeyPress(key)} :
             IF k.confirm
             THEN \E r \in {IF home.confirmationOverlay[1] = "kill"
                            THEN killAction(Cur, f) ELSE pushAction(Cur, f)} :
                     HomeDone("Confirm", key, [r.s EXCEPT !.appState = stateDefault],
                              [home EXCEPT !.confirmationOverlay = <<>>, !.ran = @ + 1], r.err)
             ELSE IF k.close
             THEN f = {} /\ HomeDone("Cancel", key, [Cur EXCEPT !.appState = stateDefault],
                                     [home EXCEPT !.confirmationOverlay = <<>>], NoErr)
             ELSE f = {} /\ HomeDone("Ignored", key, Cur, home, NoErr)

\* r on the selected instance: Resume; its error goes to handleError.
PressResume ==
    /\ appState = stateDefault
    /\ inList
    /\ home.hides < MaxHides
    /\ \E f \in FaultsIf(started /\ Status = Paused, ResumeFaults) :
          \E r \in {InstanceResume(Cur, f)} :
             HomeDone("KeyResume", "r", r.s,
                      IF Failed(r) THEN handleError(home, r.err) ELSE home, r.err)

\* hideErrMsg arrives: the error box is cleared.
HideErr ==
    /\ home.hides > 0
    /\ HomeDone("hideErrMsg", "", Cur, [home EXCEPT !.errBox = <<>>, !.hides = @ - 1], NoErr)

NextConfirm ==
    \/ KeyNew
    \/ TypeTitle
    \/ SubmitName
    \/ Pause
    \/ PressKill
    \/ PressSubmit
    \/ PressInConfirm
    \/ PressResume
    \/ HideErr

SpecConfirm == Init /\ [][NextConfirm]_vars

(***************************************************************************)
(* The name entry with several instances in the list and several commands  *)
(* in flight: every completion message names its instance by an index into *)
(* the list as it is when the message is handled.                          *)
(***************************************************************************)

MaxObjects == 2
MaxListed == 2
MaxAsked == 2

\* session.NewInstance, with the counts of what is asked of the object: running
\* and translating are the Starts and the translations in flight, begun and
\* translations those ever begun (0, 1, or 2 for more than one), overlapped
\* whether one began during another.
EntryNewInstance ==
    [Title |-> "", Status |-> Ready, started |-> FALSE,
     running |-> 0, translating |-> 0, begun |-> 0, translations |-> 0,
     overlapped |-> FALSE]

\* An object nothing refers to any more.
Collected == [EntryNewInstance EXCEPT !.Status = "collected"]

Twice(n) == IF n = 0 THEN 1 ELSE 2

RemoveAt(seq, k) == SubSeq(seq, 1, k - 1) \o SubSeq(seq, k + 1, Len(seq))

\* The last item of the list: the instance the name entry works on.
LastItem(e) == e.items[Len(e.items)]

\* List.Kill: the selected item is killed and dropped; where the cursor goes
\* is left open.
EntryListKill(e) ==
    IF e.items = <<>> THEN {e}
    ELSE LET items == RemoveAt(e.items, e.selectedIdx)
         IN  {[e EXCEPT !.items = items, !.selectedIdx = c] :
                 c \in IF items = <<>> THEN {0} ELSE 1..Len(items)}

\* SaveInstances(GetInstances()): the started instances of the list are saved.
EntrySave(e) == [e EXCEPT !.saved = {e.items[k] : k \in {j \in 1..Len(e.items) : e.objs[e.items[j]].started}}]

\* Instance.Start(true) is entered, and returns.
BeginStart(o) ==
    [o EXCEPT !.begun = Twice(@), !.running = @ + 1,
              !.overlapped = @ \/ o.running > 0 \/ o.translating > 0]
EndStart(o, ok) ==
    [o EXCEPT !.running = @ - 1, !.started = @ \/ ok,
              !.Status = IF ok THEN Running ELSE @]

\* The objects that are neither in the list nor inside a Start are garbage.
Collect(e) ==
    LET live == {e.items[k] : k \in 1..Len(e.items)}
                \cup {e.cmds[k].obj : k \in 1..Len(e.cmds)}
    IN  [e EXCEPT !.objs = [id \in 1..Len(e.objs) |->
                               IF id \in live THEN e.objs[id] ELSE Collected]]

\* A key or a message has been handled, or a command has taken a step; hit
\* tells which instance a message was for and which one it changed.
EntryHandled(op, e, hit) ==
    /\ entry' = Collect(e)
    /\ last' = [op |-> op, hit |-> hit]
    /\ UNCHANGED <<otherVars, fleet, att, home>>

EntryDone(op, e) == EntryHandled(op, e, NoHit)

\* n: a new instance is added to the list and selected; the name entry opens.
EntryKeyNew ==
    /\ entry.state = stateDefault
    /\ Len(entry.items) < MaxListed
    /\ Len(entry.objs) < MaxObjects
    /\ EntryDone("KeyNew",
                 [entry EXCEPT !.objs = Append(@, EntryNewInstance),
                               !.items = Append(@, Len(entry.objs) + 1),
                               !.selectedIdx = Len(entry.items) + 1,
                               !.state = stateNew])

\* up, down: the cursor moves.
EntryCursor ==
    /\ entry.state = stateDefault
    /\ \E c \in 1..Len(entry.items) :
          /\ c # entry.selectedIdx
          /\ EntryDone("Cursor", [entry EXCEPT !.selectedIdx = c])

\* A key of the name entry that edits the title of the last item.
EntryTypeTitle ==
    /\ entry.state = stateNew
    /\ entry.items # <<>>
    /\ \E title \in AsyncTitles :
          LET id == LastItem(entry)
          IN  IF entry.objs[id].started
              THEN EntryDone("SetTitle", entry)
              ELSE EntryDone("SetTitle", [entry EXCEPT !.objs[id].Title = title])

\* Enter in the name entry: an ASCII title is started at once; any other is
\* marked Translating and handed to a translation command.
EntrySubmit ==
    /\ entry.state = stateNew
    /\ entry.items # <<>>
    /\ LET id == LastItem(entry)
           o == entry.objs[id]
       IN  IF o.Title = ""
           THEN EntryDone("Enter", entry)
           ELSE IF HasNonASCII(o.Title)
           THEN /\ entry.asked < MaxAsked
                /\ EntryDone("Enter",
                       [entry EXCEPT !.objs[id] = [o EXCEPT !.Status = Translating,
                                                            !.translations = Twice(@),
                                                            !.translating = @ + 1],
                                     !.asked = @ + 1,
                                     !.cmds = Append(@, [kind |-> "translate",
                                                         idx |-> Len(entry.items),
                                                         for |-> id, pc |-> 0, obj |-> 0])])
           ELSE \E ok, saveFails \in BOOLEAN :
                   LET e == [entry EXCEPT !.objs[id] =
                                EndStart(BeginStart(o), ok)]
                   IN  IF ~ok
                       THEN ~saveFails /\ \E k \in EntryListKill(e) :
                               EntryDone("Enter", [k EXCEPT !.state = stateDefault])
                       ELSE IF saveFails
                       THEN EntryDone("Enter", e)
                       ELSE EntryDone("Enter", [EntrySave(e) EXCEPT !.state = stateDefault])

\* Esc or ctrl+c in the name entry: the selected item is dropped.
EntryCancel ==
    /\ entry.state = stateNew
    /\ \E k \in EntryListKill(entry) :
          EntryDone("Cancel", [k EXCEPT !.state = stateDefault])

\* A translation command ends: the translated identifier, or the fallback.
EntryTranslateEnds ==
    \E k \in 1..Len(entry.cmds) :
       /\ entry.cmds[k].kind = "translate"
       /\ \E id \in TranslatedIDs :
             EntryDone("TranslateEnds",
                 [entry EXCEPT !.cmds = RemoveAt(@, k),
                               !.msgs = Append(@, [kind |-> "translation",
                                                   idx |-> entry.cmds[k].idx, id |-> id,
                                                   err |-> NoErr, for |-> entry.cmds[k].for])])

\* translationCompleteMsg: the item at the index is given the title and a
\* start command is issued for it.
EntryTranslationComplete ==
    /\ entry.msgs # <<>>
    /\ Head(entry.msgs).kind = "translation"
    /\ LET msg == Head(entry.msgs)
           e == [entry EXCEPT !.msgs = Tail(@), !.objs[msg.for].translating = @ - 1]
       IN  IF msg.idx > Len(e.items)
           THEN EntryHandled("TranslationComplete", e,
                             [kind |-> "translation", for |-> msg.for,
                              target |-> 0, effect |-> "none"])
           ELSE LET target == e.items[msg.idx]
                IN  IF e.objs[target].started
                    THEN EntryHandled("TranslationComplete", e,
                             [kind |-> "translation", for |-> msg.for,
                              target |-> target, effect |-> "none"])
                    ELSE EntryHandled("TranslationComplete",
                             [e EXCEPT !.objs[target].Title = msg.id,
                                       !.cmds = Append(@, [kind |-> "start", idx |-> msg.idx,
                                                           for |-> target, pc |-> 0,
                                                           obj |-> 0])],
                             [kind |-> "translation", for |-> msg.for,
                              target |-> target, effect |-> "rename"])

\* A start command begins: the item at the index is looked up and its Start
\* is entered.
EntryStartBegins ==
    \E k \in 1..Len(entry.cmds) :
       /\ entry.cmds[k].kind = "start"
       /\ entry.cmds[k].pc = 0
       /\ LET cmd == entry.cmds[k]
              failed(err) == [entry EXCEPT !.cmds = RemoveAt(@, k),
                                           !.msgs = Append(@, [kind |-> "start",
                                                               idx |-> cmd.idx, id |-> "",
                                                               err |-> err, for |-> cmd.for])]
          IN  IF cmd.idx > Len(entry.items)
              THEN EntryDone("StartBegins", failed(<<"invalid instance index">>))
              ELSE LET id == entry.items[cmd.idx]
                   IN  IF entry.objs[id].Title = ""
                       THEN EntryDone("StartBegins",
                                      failed(<<"instance title cannot be empty">>))
                       ELSE EntryDone("StartBegins",
                                [entry EXCEPT !.objs[id] = BeginStart(@),
                                              !.cmds[k] = [cmd EXCEPT !.pc = 1, !.obj = id]])

\* The Start of a start command returns and the command ends.
EntryStartEnds ==
    \E k \in 1..Len(entry.cmds) :
       /\ entry.cmds[k].kind = "start"
       /\ entry.cmds[k].pc = 1
       /\ \E ok \in BOOLEAN :
             LET cmd == entry.cmds[k]
             IN  EntryDone("StartEnds",
                     [entry EXCEPT !.objs[cmd.obj] = EndStart(@, ok),
                                   !.cmds = RemoveAt(@, k),
                                   !.msgs = Append(@, [kind |-> "start", idx |-> cmd.idx,
                                                       id |-> "",
                                                       err |-> IF ok THEN NoErr
                                                               ELSE <<"failed to start new session">>,
                                                       for |-> cmd.for])])

\* instanceStartCompleteMsg: on failure the selected item is dropped; else the
\* list is saved and the name entry closes.
EntryStartComplete ==
    /\ entry.msgs # <<>>
    /\ Head(entry.msgs).kind = "start"
    /\ LET msg == Head(entry.msgs)
           e == [entry EXCEPT !.msgs = Tail(@)]
           hit(target, effect) == [kind |-> "start", for |-> msg.for,
                                   target |-> target, effect |-> effect]
       IN  IF msg.idx > Len(e.items)
           THEN EntryHandled("StartComplete", e, hit(0, "none"))
           ELSE IF msg.err # NoErr
           THEN \E k \in EntryListKill(e) :
                   EntryHandled("StartComplete", [k EXCEPT !.state = stateDefault],
                                hit(e.items[e.selectedIdx], "kill"))
           ELSE \E saveFails \in BOOLEAN :
                   IF saveFails
                   THEN EntryHandled("StartComplete", e, hit(e.items[msg.idx], "none"))
                   ELSE EntryHandled("StartComplete",
                                     [EntrySave(e) EXCEPT !.state = stateDefault],
                                     hit(e.items[msg.idx], "persist"))

NextEntry ==
    \/ EntryKeyNew
    \/ EntryCursor
    \/ EntryTypeTitle
    \/ EntrySubmit
    \/ EntryCancel
    \/ EntryTranslateEnds
    \/ EntryTranslationComplete
    \/ EntryStartBegins
    \/ EntryStartEnds
    \/ EntryStartComplete

InitEntry ==
    FreshObjects /\ autoYes = FALSE /\ prev = NoPrev /\ last = [op |-> "none", hit |-> NoHit]

SpecEntry == InitEntry /\ [][NextEntry]_vars

(***************************************************************************)
(* Several global-store managers bound to one config directory: every      *)
(* project manager and the instance manager make their own, and each keeps *)
(* its own cached state.                                                   *)
(***************************************************************************)

\* The manager of a project instance manager and the one of the instance manager.
Managers == {"project", "instance"}

\* No call yet: no manager has loaded anything.
NoManagers ==
    [op |-> "none", mgr |-> "", id |-> "", err |-> NoErr,
     caches |-> [m \in Managers |-> NotLoaded], pre |-> DefaultGlobalState]

\* The store as manager m has it: the file, and the state m has cached.
ManagerStore(m) == [StoreCur EXCEPT !.gsmState = last.caches[m]]

\* A call on manager m has returned r; pre is the state in the file before it.
ManagerDone(op, m, id, r) ==
    /\ globalFile' = r.s.globalFile
    /\ gsmState' = r.s.gsmState
    /\ projectFiles' = r.s.projectFiles
    /\ last' = [op |-> op, mgr |-> m, id |-> id, err |-> r.err,
                caches |-> [last.caches EXCEPT ![m] = r.s.gsmState],
                pre |-> globalFile.state]
    /\ UNCHANGED <<instanceVars, bg, posted, fleet, att, home, entry, prev>>

\* NewProjectInstanceManager, NewInstanceManager: a manager of its own.
ManagerNew ==
    \E m \in Managers :
       /\ last.caches[m].loaded
       /\ ManagerDone("NewGlobalStateManager", m, "",
                      Res([ManagerStore(m) EXCEPT !.gsmState = NotLoaded], NoErr))

ManagerAddProject ==
    \E m \in Managers, p \in RepoPaths, now \in {1} :
       ManagerDone("AddProject", m, GenerateProjectID(p),
                   AddProject(ManagerStore(m), GenerateProjectID(p), Base(p), p, now, {}))

ManagerUpdateCount ==
    \E m \in Managers, p \in RepoPaths, count \in {1}, now \in {1} :
       ManagerDone("UpdateProjectInstanceCount", m, GenerateProjectID(p),
                   UpdateProjectInstanceCount(ManagerStore(m), GenerateProjectID(p),
                                              count, now, {}))

ManagerRemoveProject ==
    \E m \in Managers, p \in RepoPaths :
       ManagerDone("RemoveProject", m, GenerateProjectID(p),
                   RemoveProject(ManagerStore(m), GenerateProjectID(p), {}))

ManagerSetHelpScreensSeen ==
    \E m \in Managers, seen \in {1} :
       ManagerDone("SetHelpScreensSeen", m, "", SetHelpScreensSeen(ManagerStore(m), seen, {}))

NextManagers ==
    \/ ManagerNew
    \/ ManagerAddProject
    \/ ManagerUpdateCount
    \/ ManagerRemoveProject
    \/ ManagerSetHelpScreensSeen

InitManagers == FreshObjects /\ autoYes = FALSE /\ prev = NoPrev /\ last = NoManagers

SpecManagers == InitManagers /\ [][NextManagers]_vars

(***************************************************************************)
(* The keys of the name entry, one by one.  The titles typed are ASCII, so *)
(* len(Title), a number of bytes, is the number of their characters.       *)
(***************************************************************************)

\* The length from which the name entry refuses further runes.
TitleLimit == 32

\* Spaces typed into one title.
MaxSpaces == 1

\* What one KeyRunes message carries: a typed rune, or the runes of a paste.
TypedRunes == {"a", "aaaa"}

\* A title of 33 characters.
LongTitle == "abcdefghijklmnopqrstuvwxyz0123456"

Spaces(title) == Cardinality({i \in 1..Len(title) : SubSeq(title, i, i) = " "})

\* KeyRunes: refused when the title has TitleLimit bytes or more; else the
\* runes of the message are appended through SetTitle.
NameRunes ==
    /\ appState = stateNew
    /\ inList
    /\ \E runes \in TypedRunes :
          IF Len(Title) >= TitleLimit
          THEN Done("KeyRunes", Cur, <<"title cannot be longer than 32 characters">>)
          ELSE \E r \in {InstanceSetTitle(Cur, Title \o runes)} : Done("KeyRunes", r.s, r.err)

\* KeyBackspace: nothing on an empty title; else the last rune is dropped.
NameBackspace ==
    /\ appState = stateNew
    /\ inList
    /\ IF Len(Title) = 0
       THEN Done("KeyBackspace", Cur, NoErr)
       ELSE \E r \in {InstanceSetTitle(Cur, SubSeq(Title, 1, Len(Title) - 1))} :
               Done("KeyBackspace", r.s, r.err)

\* KeySpace: a space is appended through SetTitle.
NameSpace ==
    /\ appState = stateNew
    /\ inList
    /\ Spaces(Title) < MaxSpaces
    /\ \E r \in {InstanceSetTitle(Cur, Title \o " ")} : Done("KeySpace", r.s, r.err)

\* The holder of the object calls SetTitle on it.
SetTitleCall ==
    /\ obj
    /\ \E title \in {"feat", LongTitle} :
          \E r \in {InstanceSetTitle(Cur, title)} : Done("SetTitle", r.s, r.err)

NextNaming ==
    \/ KeyNew
    \/ NameRunes
    \/ NameBackspace
    \/ NameSpace
    \/ SetTitleCall
    \/ CancelName

SpecNaming == Init /\ [][NextNaming]_vars

(***************************************************************************)
(* The lifecycle calls made on the instance itself                        *)
(***************************************************************************)

\* The holder of the object calls Start on it for the first time, whatever
\* its title is.
StartCall ==
    /\ obj
    /\ ~started
    /\ \E f \in FaultsIf(Title # "", StartFaults) :
          \E r \in {InstanceStart(Cur, TRUE, f)} : Done("Start", r.s, r.err)

NextLifecycle ==
    \/ KeyNew
    \/ TypeTitle
    \/ CancelName
    \/ StartCall
    \/ Pause
    \/ Resume
    \/ Kill

SpecLifecycle == Init /\ [][NextLifecycle]_vars

(***************************************************************************)
(* The per-project store (ProjectStorage), the project's instance manager  *)
(* and the migration of the legacy state                                    *)
(***************************************************************************)

\* Titles of the records, in the order they are added; a title no record has.
TitleNames == <<"feat", "t2", "t3", "t4", "t5", "t6", "t7", "t8", "t9", "t10", "t11">>
NoSuchTitle == "none"

\* An instance record of a title and a status.
InstanceData(title, status) == [Title |-> title, Status |-> status]

\* The records of the first n titles.
FirstRecords(n) == [i \in 1..n |-> InstanceData(TitleNames[i], Running)]

\* The project the calls below work on.
CurrentProject == GenerateProjectID("/r/a")

\* GetInstances: the records of the project's state file; none without a file.
ProjectStorageGetInstances(t, projectID, fail) ==
    IF fail
    THEN [err |-> <<"failed to read project state">>, val |-> <<>>]
    ELSE [err |-> NoErr, val |-> t.projectFiles[projectID]]

\* SaveInstances: load the state, replace its records, save it.
ProjectStorageSaveInstances(t, projectID, instances, f) ==
    IF "ReadProject" \in f
    THEN Res(t, <<"failed to read project state">>)
    ELSE IF "WriteProject" \in f
    THEN Res(t, <<"failed to write project state">>)
    ELSE Res([t EXCEPT !.projectFiles[projectID] = instances], NoErr)

\* A title is among the records.
HasTitle(instances, title) == \E i \in 1..Len(instances) : instances[i].Title = title

\* A variant of AddInstance without the check for a duplicate title.
AddInstanceUnchecked(t, projectID, instance, f) ==
    LET g == ProjectStorageGetInstances(t, projectID, "ReadProject" \in f)
    IN  IF g.err # NoErr THEN Res(t, g.err)
        ELSE IF Len(g.val) >= ProjectInstanceLimit
        THEN Res(t, <<"project instance limit reached">>)
        ELSE ProjectStorageSaveInstances(t, projectID, Append(g.val, instance), f)

\* AddInstance: the limit, then the duplicate title, then append and save.
ProjectStorageAddInstance(t, projectID, instance, f) ==
    LET g == ProjectStorageGetInstances(t, projectID, "ReadProject" \in f)
    IN  IF g.err # NoErr THEN Res(t, g.err)
        ELSE IF Len(g.val) >= ProjectInstanceLimit
        THEN Res(t, <<"project instance limit reached">>)
        ELSE IF HasTitle(g.val, instance.Title)
        THEN Res(t, <<"instance with title already exists">>)
        ELSE ProjectStorageSaveInstances(t, projectID, Append(g.val, instance), f)

\* The index of the first record of that title, 0 when there is none.
TitleIndex(instances, title) ==
    IF HasTitle(instances, title)
    THEN CHOOSE i \in 1..Len(instances) :
            /\ instances[i].Title = title
            /\ \A j \in 1..(i - 1) : instances[j].Title # title
    ELSE 0

\* UpdateInstance: the first record of the title is replaced, then save.
ProjectStorageUpdateInstance(t, projectID, instance, f) ==
    LET g == ProjectStorageGetInstances(t, projectID, "ReadProject" \in f)
        i == TitleIndex(g.val, instance.Title)
    IN  IF g.err # NoErr THEN Res(t, g.err)
        ELSE IF i = 0 THEN Res(t, <<"instance not found">>)
        ELSE ProjectStorageSaveInstances(t, projectID, [g.val EXCEPT ![i] = instance], f)

\* DeleteInstance: every record of the title is dropped, then save.
ProjectStorageDeleteInstance(t, projectID, title, f) ==
    LET g == ProjectStorageGetInstances(t, projectID, "ReadProject" \in f)
    IN  IF g.err # NoErr THEN Res(t, g.err)
        ELSE IF ~HasTitle(g.val, title) THEN Res(t, <<"instance not found">>)
        ELSE ProjectStorageSaveInstances(t, projectID,
                                         SelectSeq(g.val, LAMBDA d : d.Title # title), f)

\* DeleteAllInstances
ProjectStorageDeleteAllInstances(t, projectID, f) ==
    ProjectStorageSaveInstances(t, projectID, <<>>, f)

ProjectFaults == {"ReadProject", "WriteProject"}

\* What a call on the per-project store is recorded with.
ProjectArg(title) ==
    [id |-> CurrentProject, known |-> HasTitle(projectFiles[CurrentProject], title),
     listed |-> Len(projectFiles[CurrentProject]), steps |-> <<>>]

\* The title an add uses: the next one in order, or the first one again.
AddTitles ==
    {"feat"} \cup (IF Len(projectFiles[CurrentProject]) < Len(TitleNames)
                   THEN {TitleNames[Len(projectFiles[CurrentProject]) + 1]} ELSE {})

\* The titles a delete names: the first, the last, or none there.
NamedTitles ==
    {"feat", NoSuchTitle}
       \cup (IF projectFiles[CurrentProject] # <<>>
             THEN {projectFiles[CurrentProject][Len(projectFiles[CurrentProject])].Title}
             ELSE {})

\* The lists a caller hands to SaveInstances: ten records, eleven, and two of
\* one title.
SavedLists ==
    {FirstRecords(ProjectInstanceLimit), FirstRecords(ProjectInstanceLimit + 1),
     <<InstanceData("feat", Running), InstanceData("feat", Paused)>>}

AddInstanceCall ==
    \E title \in AddTitles, f \in StoreFaults(ProjectFaults) :
       LET r == ProjectStorageAddInstance(StoreCur, CurrentProject,
                                          InstanceData(title, Running), f)
       IN  StoreDone("AddInstance", f, ProjectArg(title), r.s, r.err)

UpdateInstanceCall ==
    \E title \in {"feat", NoSuchTitle}, status \in {Running, Paused},
       f \in StoreFaults(ProjectFaults) :
       LET r == ProjectStorageUpdateInstance(StoreCur, CurrentProject,
                                             InstanceData(title, status), f)
       IN  StoreDone("UpdateInstance", f, ProjectArg(title), r.s, r.err)

DeleteInstanceCall ==
    \E title \in NamedTitles, f \in StoreFaults(ProjectFaults) :
       LET r == ProjectStorageDeleteInstance(StoreCur, CurrentProject, title, f)
       IN  StoreDone("DeleteInstance", f, ProjectArg(title), r.s, r.err)

DeleteAllInstancesCall ==
    \E f \in StoreFaults(ProjectFaults) :
       LET r == ProjectStorageDeleteAllInstances(StoreCur, CurrentProject, f)
       IN  StoreDone("DeleteAllInstances", f, ProjectArg(NoSuchTitle), r.s, r.err)

SaveInstancesCall ==
    \E instances \in SavedLists, f \in StoreFaults(ProjectFaults) :
       LET r == ProjectStorageSaveInstances(StoreCur, CurrentProject, instances, f)
       IN  StoreDone("SaveInstances", f, ProjectArg(NoSuchTitle), r.s, r.err)

\* The records left when those at the indices in dead are skipped.
RECURSIVE Restored(_, _, _)
Restored(instances, dead, i) ==
    IF i > Len(instances) THEN <<>>
    ELSE (IF i \in dead THEN <<>> ELSE << instances[i] >>) \o Restored(instances, dead, i + 1)

\* The records FromInstanceData may fail on: one that is not Paused is started
\* again from its session, which may be gone.  In the model none fails, or the
\* first such record does.
Unrestorable(instances) ==
    {{}} \cup {{i} : i \in {k \in 1..Len(instances) :
                                /\ instances[k].Status # Paused
                                /\ \A j \in 1..(k - 1) : instances[j].Status = Paused}}

\* GetAllInstances: the instances rebuilt from the records; a record whose
\* instance cannot be rebuilt is logged and skipped.
GetAllInstances(t, projectID, dead, fail) ==
    LET g == ProjectStorageGetInstances(t, projectID, fail)
    IN  IF g.err # NoErr
        THEN [err |-> Wrap("failed to load instances data", g.err), val |-> <<>>]
        ELSE [err |-> NoErr, val |-> Restored(g.val, dead, 1)]

\* CreateInstance of the project's manager: the limit against the instances
\* rebuilt, a new instance, Start, AddInstance (Kill when it fails), and the
\* project's count through the manager's own global state manager.
CreateInstance(s, t, title, dead, now, f) ==
    LET a == GetAllInstances(t, CurrentProject, dead, "ReadProject" \in f)
    IN  IF a.err # NoErr
        THEN [s |-> s, t |-> t, err |-> Wrap("failed to load instances", a.err)]
        ELSE IF Len(a.val) >= ProjectInstanceLimit
        THEN [s |-> s, t |-> t, err |-> <<"project instance limit reached">>]
        ELSE LET st == InstanceStart([NewInstance(s) EXCEPT !.Title = title], TRUE, f)
                 ad == ProjectStorageAddInstance(t, CurrentProject,
                                                 InstanceData(title, st.s.Status), f)
                 c == UpdateProjectInstanceCount([ad.s EXCEPT !.gsmState = NotLoaded],
                                                 CurrentProject, Len(a.val) + 1, now, f)
             IN  IF Failed(st)
                 THEN [s |-> st.s, t |-> t, err |-> Wrap("failed to start instance", st.err)]
                 ELSE IF Failed(ad)
                 THEN [s |-> InstanceKill(st.s, f).s, t |-> ad.s,
                       err |-> Wrap("failed to save instance", ad.err)]
                 ELSE [s |-> st.s, t |-> [c.s EXCEPT !.gsmState = t.gsmState], err |-> NoErr]

\* The times a call may read from the clock: none before a time in the store.
Clock == {now \in Times : \A i \in 1..Len(Memory.Projects) : Memory.Projects[i].UpdatedAt <= now}

CreateFaults == {"Setup", "PtyNewSession", "Cleanup", "ReadProject", "WriteProject", "Write"}

\* The manager creates an instance; the model follows one instance's resources,
\* so none are held when it does.
CreateInstanceCall ==
    /\ created < MaxCreated
    /\ ~sessionExists /\ ~worktreeExists /\ ~branchExists
    /\ \E title \in AddTitles, dead \in Unrestorable(projectFiles[CurrentProject]),
          now \in Clock, f \in StoreFaults(CreateFaults) :
          \E r \in {CreateInstance(Cur, StoreCur, title, dead, now, f)} :
              /\ Apply(r.s)
              /\ globalFile' = r.t.globalFile
              /\ gsmState' = r.t.gsmState
              /\ projectFiles' = r.t.projectFiles
              /\ last' = [op |-> "CreateInstance",
                          arg |-> [ProjectArg(title) EXCEPT !.steps = r.s.steps],
                          err |-> r.err,
                          failedCalls |-> last.failedCalls + (IF f = {} THEN 0 ELSE 1)]
              /\ prev' = NoPrev
              /\ UNCHANGED <<bg, posted, fleet, att, home, entry>>

\* Status(n): the status a legacy record's integer stands for.
StatusFromInt(n) ==
    CASE n = 0 -> Running
      [] n = 1 -> Ready
      [] n = 2 -> Loading
      [] n = 3 -> Paused

\* A legacy record: title, worktree.repo_path, path and status.
Legacy(title, repoPath, path, status) ==
    [Title |-> title, RepoPath |-> repoPath, Path |-> path, Status |-> status]

\* Legacy inputs: one that does not parse; an empty array; two groups, one by
\* the fallback path; a group with neither path; eleven records of one
\* repository.
LegacyInputs ==
    { [parses |-> FALSE, records |-> <<>>],
      [parses |-> TRUE, records |-> <<>>],
      [parses |-> TRUE,
       records |-> << Legacy("feat", "/r/a", "/r/a", 0), Legacy("t2", "/r/a", "/r/a", 3),
                      Legacy("t3", "", "/r/b", 0) >>],
      [parses |-> TRUE,
       records |-> << Legacy("feat", "", "", 0), Legacy("t2", "/r/a", "", 0) >>],
      [parses |-> TRUE,
       records |-> [i \in 1..(ProjectInstanceLimit + 1) |->
                       Legacy(TitleNames[i], "/r/a", "/r/a", 0)]] }

\* The key a legacy record is grouped by.
GroupKey(rec) == IF rec.RepoPath = "" THEN rec.Path ELSE rec.RepoPath

GroupOf(records, key) == SelectSeq(records, LAMBDA rec : GroupKey(rec) = key)

KeysOf(records) == {GroupKey(records[i]) : i \in 1..Len(records)}

\* The orders in which a map of these keys may be iterated.
Orders(keys) ==
    {o \in [1..Cardinality(keys) -> keys] : \A i, j \in 1..Cardinality(keys) :
                                                o[i] = o[j] => i = j}

\* The legacy records in the current format.
Convert(records) ==
    [i \in 1..Len(records) |-> InstanceData(records[i].Title, StatusFromInt(records[i].Status))]

\* The failure of one call site, as the failure of the write inside it.
At(point, f, inner) == (IF point \in f THEN {inner} ELSE {}) \cup (f \cap {"Read"})

\* A variant of the loop below that gives every project the number of all the
\* legacy records as its count.
RECURSIVE GlobalMigrateCountingAll(_, _, _, _, _)
GlobalMigrateCountingAll(t, records, order, now, f) ==
    IF order = <<>> THEN t
    ELSE LET key == Head(order)
             a == AddProject(t, GenerateProjectID(key), Base(key), key, now,
                             At("GlobalAdd", f, "Write"))
             c == UpdateProjectInstanceCount(a.s, GenerateProjectID(key), Len(records), now,
                                             At("GlobalCount", f, "Write"))
         IN  GlobalMigrateCountingAll(IF Failed(a) THEN a.s ELSE c.s, records, Tail(order),
                                      now, f)

\* The loop of the global manager's migration: AddProject and the count of each
\* group; a group whose call fails is skipped.
RECURSIVE GlobalMigrateGroups(_, _, _, _, _)
GlobalMigrateGroups(t, records, order, now, f) ==
    IF order = <<>> THEN t
    ELSE LET key == Head(order)
             a == AddProject(t, GenerateProjectID(key), Base(key), key, now,
                             At("GlobalAdd", f, "Write"))
             c == UpdateProjectInstanceCount(a.s, GenerateProjectID(key),
                                             Len(GroupOf(records, key)), now,
                                             At("GlobalCount", f, "Write"))
         IN  GlobalMigrateGroups(IF Failed(a) THEN a.s ELSE c.s, records, Tail(order), now, f)

\* MigrateLegacyState of the global state manager: nothing once the version is
\* 1; else the projects and counts of the groups, the version, and a save.
GlobalStateManagerMigrateLegacyState(t, legacy, order, now, f) ==
    LET t1 == GetOrCreateGlobalState(t, "Read" \in f)
        t2 == GlobalMigrateGroups(t1, legacy.records, order, now, f)
    IN  IF t1.gsmState.state.LastMigrationVersion >= 1
        THEN Res(t1, NoErr)
        ELSE IF ~legacy.parses
        THEN Res(t1, <<"failed to parse legacy instances">>)
        ELSE LET r == SaveGlobalState([t2 EXCEPT !.gsmState.state.LastMigrationVersion = 1],
                                      "Write" \in f)
             IN  IF Failed(r) /\ legacy.records # <<>>
                 THEN Res(r.s, Wrap("failed to save global state after migration", r.err))
                 ELSE r

\* The loop of the instance manager's migration: for each group AddProject, the
\* project directory, SaveInstances of the converted records and the count; a
\* group whose call fails is skipped from there.
RECURSIVE MigrateGroups(_, _, _, _, _)
MigrateGroups(t, records, order, now, f) ==
    IF order = <<>> THEN t
    ELSE LET key == Head(order)
             group == GroupOf(records, key)
             a == AddProject(t, GenerateProjectID(key), Base(key), key, now,
                             At("MigrateAdd", f, "Write"))
             sv == ProjectStorageSaveInstances(a.s, GenerateProjectID(key), Convert(group),
                                               At("MigrateSave", f, "WriteProject"))
             c == UpdateProjectInstanceCount(sv.s, GenerateProjectID(key), Len(group), now,
                                             At("MigrateCount", f, "Write"))
             t1 == IF Failed(a) \/ "EnsureDir" \in f THEN a.s
                   ELSE IF Failed(sv) THEN sv.s
                   ELSE c.s
         IN  MigrateGroups(t1, records, Tail(order), now, f)

\* MigrateLegacyState of the instance manager: the groups first, then the
\* global manager's migration.  The version is not looked at here.
InstanceManagerMigrateLegacyState(t, legacy, order, now, f) ==
    IF ~legacy.parses
    THEN Res(t, <<"failed to parse legacy instances">>)
    ELSE IF legacy.records = <<>>
    THEN GlobalStateManagerMigrateLegacyState(t, legacy, order, now, f)
    ELSE GlobalStateManagerMigrateLegacyState(
             MigrateGroups(t, legacy.records, order, now, f), legacy, order, now, f)

MigrateFaults == {"MigrateAdd", "MigrateSave", "MigrateCount", "GlobalAdd", "Write"}

\* What a migration is recorded with: the version and the records it met.
MigrateArg(legacy) ==
    [id |-> CurrentProject, known |-> Memory.LastMigrationVersion >= 1,
     listed |-> Len(projectFiles[CurrentProject]), steps |-> <<>>, legacy |-> legacy]

\* The order is that of the first loop over the groups.  The second loop meets
\* every group's project already in the list, so its order changes nothing and
\* is taken to be the same.
MigrateLegacyStateCall ==
    \E legacy \in LegacyInputs, now \in Clock, f \in StoreFaults(MigrateFaults) :
       \E order \in Orders(KeysOf(legacy.records)) :
          LET r == InstanceManagerMigrateLegacyState(StoreCur, legacy, order, now, f)
          IN  StoreDone("MigrateLegacyState", f, MigrateArg(legacy), r.s, r.err)

NextProject ==
    \/ AddInstanceCall
    \/ UpdateInstanceCall
    \/ DeleteInstanceCall
    \/ DeleteAllInstancesCall
    \/ SaveInstancesCall

SpecProject == InitStore /\ [][NextProject]_vars

NextCreate ==
    \/ CreateInstanceCall
    \/ SaveInstancesCall
    \/ UpdateInstanceCall

SpecCreate == InitStore /\ [][NextCreate]_vars

NextMigrate ==
    \/ MigrateLegacyStateCall
    \/ NewGlobalStateManager

SpecMigrate == InitStore /\ [][NextMigrate]_vars

(***************************************************************************)
(* Properties                                                              *)
(***************************************************************************)

Active == {Running, Ready, Loading}

\* C2 (as stated): for a started instance, after any sequence of Start, Pause,
\* Resume, Kill and ticks, erroring ones included, a status of Running, Ready or
\* Loading implies that the worktree and the session both exist.
C2_ActiveHasWorktreeAndSession ==
    (obj /\ started /\ ~killed /\ ~extDeath /\ Status \in Active)
        => (worktreeExists /\ sessionExists)

\* A Pause whose prune failed has returned: the status is still Running and the
\* worktree is gone.
C2_ActiveWithoutWorktree ==
    /\ obj /\ started /\ ~killed /\ ~extDeath
    /\ last.op = "Pause" /\ last.faults = {"Prune"}
    /\ last.pre.Status = Running /\ last.pre.worktreeExists
    /\ Status = Running
    /\ ~worktreeExists

\* C3 (as stated): a Paused instance has no worktree on disk and its branch
\* exists, also after a Resume that failed.
C3_PausedKeepsBranchOnly ==
    (obj /\ started /\ ~killed /\ Status = Paused) => (~worktreeExists /\ branchExists)

\* A Resume has failed at the session, the status is still Paused and the branch
\* is gone.
C3_PausedWithoutBranch ==
    /\ obj /\ started /\ ~killed
    /\ last.op = "Resume" /\ last.err # NoErr
    /\ last.pre.branchExists
    /\ Status = Paused
    /\ ~branchExists

\* C4 (as stated): when the first Start of an instance returns an error, the
\* instance is not started and no worktree and no session that this Start
\* allocated remains.
C4_FailedStartReleasesAll ==
    (last.op = "Start" /\ last.err # NoErr /\ ~last.pre.started)
        => /\ ~started
           /\ worktreeExists => last.pre.worktreeExists
           /\ sessionExists => last.pre.sessionExists

\* A first Start has failed after creating the session, and the session remains.
C4_FailedStartLeavesSession ==
    /\ last.op = "Start" /\ last.err # NoErr
    /\ ~last.pre.started /\ ~last.pre.sessionExists
    /\ ~started
    /\ sessionExists

\* The operations C5 names.
C5_Ops == {"Preview", "Attach", "SendPrompt", "SetPreviewSize", "Pause", "Resume",
           "GetGitWorktree"}

\* C5 (as stated): after Kill of a started instance, each of Preview, Attach,
\* SendPrompt, SetPreviewSize, Pause, Resume and GetGitWorktree returns a
\* not-started error, and the store does not list the title.
C5_KilledIsNotStarted ==
    /\ (obj /\ killed /\ last.op \in C5_Ops) => last.err \in NotStartedErrors
    /\ (obj /\ killed) => Title \notin store

\* Kill has run on the instance, and a later GetGitWorktree has returned the
\* handle without an error.
C5_KilledStillStarted ==
    /\ obj /\ killed /\ started
    /\ ~sessionExists
    /\ last.op = "GetGitWorktree" /\ last.err = NoErr

\* The message under which Kill and Pause report the failure of a failure point.
KillMessage(point) ==
    IF point = "Cleanup" THEN "failed to cleanup git worktree"
    ELSE "failed to close tmux session"

PauseMessage(point) ==
    CASE point = "IsDirty" -> "failed to check if worktree is dirty"
      [] point = "Commit" -> "failed to commit changes"
      [] point = "PtyClose" -> "failed to detach tmux session"
      [] point = "Remove" -> "failed to remove git worktree"
      [] point = "Prune" -> "failed to prune git worktrees"

Attempted(step) == \E i \in 1..Len(last.steps) : last.steps[i] = step

\* A Kill or a Pause that got past its guards.
KillRan == last.op = "Kill" /\ last.pre.started
PauseRan == last.op = "Pause" /\ last.pre.started /\ last.pre.Status # Paused

\* C6 (as stated): Kill and Pause attempt every cleanup step even when an earlier
\* one failed (Kill: close, cleanup; Pause: commit if dirty, detach, remove, prune)
\* and return one composite error that contains every sub-error.
C6_EveryStepAttempted ==
    /\ KillRan => (Attempted("Close") /\ Attempted("Cleanup")
                   /\ \A p \in last.faults : Contains(last.err, KillMessage(p)))
    /\ PauseRan => (/\ Attempted("DetachSafely")
                    /\ last.pre.worktreeExists => (Attempted("Remove") /\ Attempted("Prune"))
                    /\ \A p \in last.faults : Contains(last.err, PauseMessage(p)))

\* C6: Kill attempts both of its steps even when the first failed.  Pause goes on
\* after a failed dirty check and a failed detach, and returns at once after a
\* failed commit, a failed remove and a failed prune.  Each returns an error that
\* contains the sub-error of every step that failed, under one heading when
\* there is more than one.
C6_StepsAndCompositeError ==
    /\ KillRan =>
          /\ last.steps = <<"Close", "Cleanup">>
          /\ \A p \in last.faults : Contains(last.err, KillMessage(p))
          /\ ({"KillSession", "Cleanup"} \subseteq last.faults
                 \/ {"PtyClose", "Cleanup"} \subseteq last.faults)
                => Head(last.err) = "multiple cleanup errors occurred:"
    /\ PauseRan =>
          /\ Head(last.steps) = "IsDirty"
          /\ "Commit" \in last.faults => last.steps = <<"IsDirty", "Commit">>
          /\ "Commit" \notin last.faults => Attempted("DetachSafely")
          /\ ("Commit" \notin last.faults /\ last.pre.worktreeExists) => Attempted("Remove")
          /\ "Remove" \in last.faults => ~Attempted("Prune")
          /\ ("Remove" \notin last.faults /\ Attempted("Remove")) => Attempted("Prune")
          /\ \A p \in last.faults : Contains(last.err, PauseMessage(p))
          /\ Cardinality(last.faults) > 1 => Head(last.err) = "multiple cleanup errors occurred:"
          /\ last.err = NoErr <=> Status = Paused

\* A Pause went on after a failed detach and then failed at the remove, and its
\* error holds both failures.
C6_PauseWithTwoFailures ==
    /\ PauseRan
    /\ last.faults = {"PtyClose", "Remove"}
    /\ Attempted("Remove") /\ ~Attempted("Prune")
    /\ Contains(last.err, "failed to detach tmux session")
    /\ Contains(last.err, "failed to remove git worktree")

\* C7: when the commit of the dirty changes fails during Pause, Pause returns an
\* error, the worktree is still there with its changes, the session is exactly
\* as attached and alive as before, and the status is unchanged and not Paused.
C7_CommitFailureAborts ==
    (PauseRan /\ "Commit" \in last.faults)
        => /\ last.err # NoErr
           /\ Contains(last.err, "failed to commit changes")
           /\ worktreeExists /\ dirty
           /\ ~Attempted("DetachSafely") /\ ~Attempted("Remove")
           /\ attachCh = last.pre.attachCh
           /\ ptmx = last.pre.ptmx
           /\ sessionExists = last.pre.sessionExists
           /\ Status = last.pre.Status
           /\ Status # Paused

\* The commit has failed during the Pause of an attached, dirty, running instance.
C7_CommitFailedWhileAttached ==
    /\ PauseRan
    /\ "Commit" \in last.faults
    /\ last.pre.attachCh /\ last.pre.dirty /\ last.pre.Status = Running
    /\ attachCh

\* C8 (as stated): Resume of a Paused instance whose session still exists, when
\* the restore of the pseudo-terminal fails and nothing else does, recreates the
\* session and ends Running with a live session.
C8_ResumeRecreatesSession ==
    (/\ last.op = "Resume"
     /\ last.pre.started /\ last.pre.Status = Paused
     /\ last.pre.sessionExists /\ ~last.pre.checkedOut
     /\ last.faults = {"Restore"})
        => (last.err = NoErr /\ Status = Running /\ sessionExists /\ ptmx)

\* A Resume whose restore failed has returned "tmux session already exists" and
\* the instance is still Paused.
C8_ResumeRefusedBySession ==
    /\ last.op = "Resume"
    /\ last.pre.Status = Paused /\ last.pre.sessionExists
    /\ last.faults = {"Restore"}
    /\ Contains(last.err, "tmux session already exists")
    /\ Status = Paused
    /\ sessionExists

\* C9: Resume of a Paused instance whose branch is checked out elsewhere fails,
\* the status stays Paused, no worktree is created, and no session is started or
\* restored.
C9_CheckedOutBlocksResume ==
    (/\ last.op = "Resume"
     /\ last.pre.started /\ last.pre.Status = Paused
     /\ last.pre.checkedOut)
        => /\ last.err # NoErr
           /\ Status = Paused
           /\ last.steps = <<"IsBranchCheckedOut">>
           /\ worktreeExists = last.pre.worktreeExists
           /\ sessionExists = last.pre.sessionExists
           /\ ptmx = last.pre.ptmx

\* A Resume has been refused because the branch is checked out; there was no
\* worktree and there is none.
C9_ResumeRefusedCheckedOut ==
    /\ last.op = "Resume"
    /\ last.pre.started /\ last.pre.Status = Paused /\ last.pre.checkedOut
    /\ ~last.pre.worktreeExists
    /\ last.faults = {}
    /\ last.err = <<"cannot resume: branch is checked out, please switch to a different branch">>
    /\ ~worktreeExists

\* C10: for a Running instance, a successful Pause leaves no uncommitted change
\* (none in the worktree, none discarded with it), and a successful Resume right
\* after it ends Running with the worktree present and the branch name unchanged.
C10_PauseResumeRoundTrip ==
    /\ (PauseRan /\ last.pre.Status = Running /\ last.err = NoErr)
          => (~dirty /\ ~last.lost /\ Branch = last.pre.Branch)
    /\ (prev.op = "Pause" /\ prev.Status = Running /\ last.op = "Resume" /\ last.err = NoErr)
          => (Branch = prev.Branch /\ Branch = last.pre.Branch
              /\ Status = Running /\ worktreeExists /\ ~dirty)

\* A dirty, running instance has been paused, the changes were committed, and it
\* has been resumed.
C10_ResumedAfterPause ==
    /\ prev.op = "Pause" /\ prev.Status = Running /\ prev.dirty
    /\ last.op = "Resume" /\ last.err = NoErr
    /\ Status = Running /\ worktreeExists
    /\ Branch = BranchName("feat")

\* The last action was a metadata tick over an instance in the list.
TickRan == last.op = "Tick"

\* The instance the tick met was started and not paused.
TickLive == last.pre.started /\ last.pre.Status # Paused

C12_ErrorLeftOnlyByResumeOrKill ==
    [][(obj /\ Status = Error /\ last'.op \notin {"Resume", "Kill", "KillAction"})
          => Status' = Error]_vars

\* C12: an instance marked Error by a failed recovery was set Ready by the next
\* metadata tick.
C12_TickOverwritesError ==
    TickRan /\ last.pre.Status = Error /\ Status = Ready /\ ~sessionExists

\* C11: every change of an Instance field is made by the event loop; a command
\* running off the event loop changes no field of an instance that is in the
\* list, where the event loop reads and changes it.
C11_OnlyEventLoopMutates ==
    [][(inList /\ last'.op \in BgOps) => InstanceFields' = InstanceFields]_vars

\* C11: the start command has set started and Running on an instance that is in
\* the list while the name entry is still open.
C11_StartedOffTheEventLoop ==
    /\ last.op = "BgStartEnd" /\ last.err = NoErr
    /\ inList /\ appState = stateNew
    /\ started /\ Status = Running /\ posted.kind = "start"

\* The ids of the projects are pairwise distinct.
DistinctIDs(projects) ==
    \A i, j \in 1..Len(projects) : projects[i].ID = projects[j].ID => i = j

\* From ps to qs only the name, the path and updated-at of the project of that
\* id have changed.
OnlyTouched(ps, qs, projectID) ==
    /\ Len(qs) = Len(ps)
    /\ \A i \in 1..Len(ps) :
          /\ qs[i].ID = ps[i].ID
          /\ qs[i].CreatedAt = ps[i].CreatedAt
          /\ qs[i].InstanceCount = ps[i].InstanceCount
          /\ ps[i].ID # projectID => qs[i] = ps[i]

\* The number of projects of that id.
Occurrences(projects, projectID) ==
    Cardinality({i \in 1..Len(projects) : projects[i].ID = projectID})

C17_FailedCallChangesNothing ==
    [][(last'.op \in {"AddProject", "UpdateProjectInstanceCount", "RemoveProject",
                      "SetHelpScreensSeen"} /\ last'.err # NoErr)
          => (globalFile' = globalFile /\ Memory' = Memory)]_vars

\* C17: AddProject has failed to write the file and its project is in the
\* manager's state all the same.
C17_FailedAddProjectKept ==
    /\ last.op = "AddProject" /\ ~last.arg.known
    /\ Contains(last.err, "failed to write global state")
    /\ Occurrences(Memory.Projects, last.arg.id) = 1
    /\ Occurrences(globalFile.state.Projects, last.arg.id) = 0

\* No two records of the list have one title.
TitlesDistinct(instances) ==
    \A i, j \in 1..Len(instances) : instances[i].Title = instances[j].Title => i = j

\* C14 (as stated): whatever per-project store operations have run, every
\* project's store holds at most ProjectInstanceLimit instances and their
\* titles are pairwise distinct.
C14_StoreWithinLimitAndDistinct ==
    \A id \in ProjectIDs :
       /\ Len(projectFiles[id]) <= ProjectInstanceLimit
       /\ TitlesDistinct(projectFiles[id])

\* C14: SaveInstances has written a list of eleven records without an error.
C14_SavedElevenRecords ==
    /\ last.op = "SaveInstances" /\ last.err = NoErr
    /\ Len(projectFiles[CurrentProject]) = ProjectInstanceLimit + 1

\* C14: the migration has written eleven legacy records of one repository to
\* the project's store.
C14_MigratedElevenRecords ==
    /\ last.op = "MigrateLegacyState" /\ last.err = NoErr
    /\ Len(projectFiles[GenerateProjectID("/r/a")]) = ProjectInstanceLimit + 1

\* The last step was an add of a title that was in the store already.
DuplicateAdd == last.op = "AddInstance" /\ last.arg.known

\* C16 (as stated): an add of a title that is in the store already fails with
\* the duplicate-title error, and the store is as it was.
C16_DuplicateAddFailsAsDuplicate ==
    [][DuplicateAdd'
          => /\ Contains(last'.err, "instance with title already exists")
             /\ projectFiles' = projectFiles]_vars

\* C16 (amended): an add of a title that is in the store already fails and the
\* store is as it was; the error is the duplicate-title error when the store
\* could be read and holds fewer than ProjectInstanceLimit instances, the limit
\* error when it holds that many, the read error when it could not be read.
C16_DuplicateAddFails ==
    [][DuplicateAdd'
          => /\ projectFiles' = projectFiles
             /\ \/ Contains(last'.err, "failed to read project state")
                \/ /\ last'.arg.listed >= ProjectInstanceLimit
                   /\ Contains(last'.err, "project instance limit reached")
                \/ /\ last'.arg.listed < ProjectInstanceLimit
                   /\ Contains(last'.err, "instance with title already exists")]_vars

\* C16 witness: an add of a title that is there has been refused as a
\* duplicate, with other titles beside it in the store.
C16_DuplicateAddRefused ==
    /\ DuplicateAdd
    /\ last.arg.listed > 1 /\ last.arg.listed < ProjectInstanceLimit
    /\ Contains(last.err, "instance with title already exists")
    /\ Len(projectFiles[CurrentProject]) = last.arg.listed

\* An add of a title that is there has met a full store and got the limit error.
C16_DuplicateAddAtLimit ==
    /\ DuplicateAdd
    /\ last.arg.listed = ProjectInstanceLimit
    /\ Contains(last.err, "project instance limit reached")

\* The last step was a create that met ProjectInstanceLimit records, or more,
\* in the project's store and could read them.
CreateAtLimit ==
    /\ last.op = "CreateInstance"
    /\ last.arg.listed >= ProjectInstanceLimit
    /\ ~Contains(last.err, "failed to load instances")

\* C15 (as stated): a create that meets ten instances in the project's store
\* returns the limit error and sets up no branch, no worktree and no session:
\* it takes no step on the instance at all.
C15_CreateAtLimitAllocatesNothing ==
    [][CreateAtLimit'
          => /\ Contains(last'.err, "project instance limit reached")
             /\ last'.arg.steps = <<>>
             /\ sessionExists' = sessionExists
             /\ worktreeExists' = worktreeExists
             /\ branchExists' = branchExists]_vars

\* C15: a create has met ten records of which one could not be rebuilt, has
\* started the new instance, and was refused by AddInstance only then; the
\* instance was killed again.
C15_StartedBeforeRefused ==
    /\ CreateAtLimit
    /\ last.arg.listed = ProjectInstanceLimit
    /\ Contains(last.err, "failed to save instance")
    /\ Contains(last.err, "project instance limit reached")
    /\ \E i \in 1..Len(last.arg.steps) : last.arg.steps[i] = "Setup"
    /\ \E i \in 1..Len(last.arg.steps) : last.arg.steps[i] = "Cleanup"

\* C18 (as stated): a migration through the instance manager that finds
\* last_migration_version at 1 or more, in the file and in the manager's state,
\* and meets no failure, changes neither the global store nor any project's
\* store.
C18_RerunChangesNothing ==
    [][(/\ last'.op = "MigrateLegacyState"
        /\ last'.arg.known
        /\ globalFile.state.LastMigrationVersion >= 1
        /\ last'.failedCalls = last.failedCalls)
          => /\ globalFile' = globalFile
             /\ Memory' = Memory
             /\ projectFiles' = projectFiles]_vars

\* C18: with no failure ever, a migration that found the version at 1 has
\* replaced the records of a project's store by its own.
C18_RerunRewroteProjectStore ==
    /\ last.op = "MigrateLegacyState" /\ last.arg.known
    /\ last.failedCalls = 0 /\ last.err = NoErr
    /\ Memory.LastMigrationVersion = 1
    /\ last.arg.listed > 0
    /\ Len(projectFiles[CurrentProject]) # last.arg.listed

\* The global store lists exactly one project for the key, with the id derived
\* from the key, the base name of the key, and the size of its group as count.
ProjectOfGroup(state, records, key) ==
    /\ Occurrences(state.Projects, GenerateProjectID(key)) = 1
    /\ \A i \in 1..Len(state.Projects) :
          state.Projects[i].ID = GenerateProjectID(key)
             => /\ state.Projects[i].Name = Base(key)
                /\ state.Projects[i].RepoPath = key
                /\ state.Projects[i].InstanceCount = Len(GroupOf(records, key))

\* The store a migration of these records is to leave: version 1 and the
\* project of every group.
Migrated(state, records) ==
    /\ state.LastMigrationVersion = 1
    /\ \A key \in {GroupKey(records[i]) : i \in 1..Len(records)} :
          ProjectOfGroup(state, records, key)

\* The last step was a migration from version 0 of an array that parses.
MigrationFromZero ==
    /\ last.op = "MigrateLegacyState"
    /\ ~last.arg.known
    /\ last.arg.legacy.parses

MigrationReturningNilRegistersGroups ==
    [][(MigrationFromZero' /\ last'.err = NoErr)
          => Migrated(Memory', last'.arg.legacy.records)]_vars

C30_KillNoOpOrCloseThenCleanup ==
    last.op = "Kill" =>
       /\ ~last.pre.started =>
             /\ last.steps = <<>>
             /\ last.err = NoErr
             /\ sessionExists = last.pre.sessionExists
             /\ worktreeExists = last.pre.worktreeExists
             /\ branchExists = last.pre.branchExists
             /\ ptmx = last.pre.ptmx
       /\ last.pre.started =>
             /\ Attempted("Close")
             /\ \A i, j \in 1..Len(last.steps) :
                   (last.steps[i] = "Close" /\ last.steps[j] = "Cleanup") => i < j

\* C30 witness: a Kill of a started instance with a live session and a worktree
\* has closed the one and then cleaned up the other.
C30_ClosedThenCleanedUp ==
    /\ KillRan
    /\ last.pre.sessionExists /\ last.pre.worktreeExists
    /\ last.steps = <<"Close", "Cleanup">>
    /\ last.err = NoErr
    /\ ~sessionExists /\ ~worktreeExists

\* A Kill of an instance that was never started has returned without a step.
C30_KillOfNeverStarted ==
    /\ last.op = "Kill" /\ ~last.pre.started
    /\ last.steps = <<>>

\* What a rejected lifecycle call is to leave alone: the instance's fields and
\* what there is of its session, worktree and branch.
Lifecycle ==
    <<Title, Branch, Status, started, tmuxSession, gitWorktree, diffStats, ptmx, attachCh,
      sessionExists, worktreeExists, branchExists, dirty, checkedOut, killed>>

\* C29: Start of an instance with an empty title, Pause of an instance that is
\* not started or is Paused, and Resume of an instance that is not started or
\* is not Paused each return an error, attempt no step and leave the status,
\* the started flag, the worktree and the session as they were.
C29_GuardsRejectWithoutChange ==
    [][(\/ last'.op = "Start" /\ Title = ""
        \/ last'.op = "Pause" /\ (~started \/ Status = Paused)
        \/ last'.op = "Resume" /\ (~started \/ Status # Paused))
          => /\ last'.err # NoErr
             /\ last'.steps = <<>>
             /\ Lifecycle' = Lifecycle]_vars

\* C29 witness: Start has refused an instance without a title.
C29_StartRefusedEmptyTitle ==
    /\ last.op = "Start"
    /\ Title = "" /\ ~started
    /\ last.err = <<"instance title cannot be empty">>

\* Pause has refused a paused instance.
C29_PauseRefusedPaused ==
    /\ last.op = "Pause" /\ last.pre.Status = Paused
    /\ last.err = <<"instance is already paused">>

\* Resume has refused a running instance.
C29_ResumeRefusedRunning ==
    /\ last.op = "Resume" /\ last.pre.started /\ last.pre.Status = Running
    /\ last.err = <<"can only resume paused instances">>

\* C27: the title of a started instance never changes.  No step on the same
\* object changes it; SetTitle on a started instance, from a key of the name
\* entry or from the translation-complete message, returns an error.
C27_TitleFixedOnceStarted ==
    [][started =>
          /\ created' = created => Title' = Title
          /\ (last'.op = "SetTitle" \/ (last'.op = "TranslationComplete" /\ inList))
                => last'.err = <<"cannot change title of a started instance">>]_vars

\* C27 witness: the translated title arrived for an instance that had been
\* started meanwhile under another title, and was refused.
C27_TranslationRefusedOnStarted ==
    /\ last.op = "TranslationComplete"
    /\ started /\ inList
    /\ Title = "feat"
    /\ last.err = <<"cannot change title of a started instance">>

\* A key of the name entry met a started instance and was refused.
C27_KeyRefusedOnStarted ==
    /\ last.op = "SetTitle" /\ started /\ Title = "feat"
    /\ last.err = <<"cannot change title of a started instance">>

\* C28 (as stated): SetTitle refuses a title of more than 32 characters, so
\* after any naming events the title of the instance has at most 32.
C28_TitleWithinLimit == Len(Title) <= TitleLimit

\* C28: SetTitle has taken a title of 33 characters without an error.
C28_SetTitleTookLongTitle ==
    /\ last.op = "SetTitle" /\ last.err = NoErr
    /\ ~started
    /\ Len(Title) = TitleLimit + 1

\* A paste onto a title of 31 characters has been appended whole.
C28_PasteBeyondLimit ==
    /\ last.op = "KeyRunes" /\ last.err = NoErr
    /\ Len(Title) = TitleLimit + 3

\* A space has been appended to a title of 32 characters.
C28_SpaceBeyondLimit ==
    /\ last.op = "KeySpace" /\ last.err = NoErr
    /\ Len(Title) = TitleLimit + 1

\* The characters of [A-Za-z0-9_].
PlainChars ==
    {"a", "b", "c", "d", "e", "f", "g", "h", "i", "j", "k", "l", "m", "n", "o", "p", "q",
     "r", "s", "t", "u", "v", "w", "x", "y", "z",
     "A", "B", "C", "D", "E", "F", "G", "H", "I", "J", "K", "L", "M", "N", "O", "P", "Q",
     "R", "S", "T", "U", "V", "W", "X", "Y", "Z",
     "0", "1", "2", "3", "4", "5", "6", "7", "8", "9", "_"}

\* The sanitized name is the prefix followed by the characters of the title
\* that are not white space, in their order, with "_" for every ".".
PrefixedAndReplaced ==
    LET kept == {i \in 1..Len(last.in) : last.in[i] \notin WhiteSpace}
        rest == SubSeq(last.out, Len(TmuxPrefix) + 1, Len(last.out))
    IN  /\ SubSeq(last.out, 1, Len(TmuxPrefix)) = TmuxPrefix
        /\ Len(rest) = Cardinality(kept)
        /\ \A i \in kept :
              rest[Cardinality({j \in kept : j <= i})]
                 = (IF last.in[i] = "." THEN "_" ELSE last.in[i])

\* C23 (as stated): the sanitized name is the prefix followed by the title
\* without its white space and with "_" for every "."; sanitizing it again
\* gives the same name; and it holds only characters of [A-Za-z0-9_].
C23_SanitizerIdempotentAndPlain ==
    /\ last.op \in {"sanitize", "sanitize again"} =>
          /\ PrefixedAndReplaced
          /\ \A i \in 1..Len(last.out) : last.out[i] \in PlainChars
    /\ last.op = "sanitize again" => last.again = last.out

\* C23: the sanitized name of the title "a" was sanitized again and came out
\* with the prefix twice.
C23_PrefixedTwice ==
    /\ last.op = "sanitize again"
    /\ last.in = <<"a">>
    /\ last.out = TmuxPrefix \o <<"a">>
    /\ last.again = TmuxPrefix \o TmuxPrefix \o <<"a">>

\* The sanitized name of a title with a hyphen holds the hyphen.
C23_HyphenKept ==
    /\ last.op = "sanitize"
    /\ last.in = <<"a", "-", "Z">>
    /\ last.out = TmuxPrefix \o <<"a", "-", "Z">>

\* What of C23 the sanitizer does: the prefix, no white space, "_" for ".".
C23_PrefixAndReplacements ==
    last.op \in {"sanitize", "sanitize again"} => PrefixedAndReplaced

\* The session of instance j is on the server.
HasSession(f, j) == toClaudeSquadTmuxName(f.inst[j].title) \in f.server

\* C22 (as stated): any two instances, of two titles in one project or of two
\* projects, have different session names, and a Start, a restore or a Kill of
\* one instance is not refused because of another's session and leaves every
\* other instance's session on the server as it was.
C22_SessionsDisjoint ==
    [][last'.op \in {"New", "Start", "Restore", "Kill"} =>
          /\ \A i, j \in 1..Len(fleet'.inst) :
                i # j => toClaudeSquadTmuxName(fleet'.inst[i].title)
                            # toClaudeSquadTmuxName(fleet'.inst[j].title)
          /\ last'.op = "Start" => last'.err = NoErr
          /\ \A j \in 1..Len(fleet.inst) :
                j # last'.i => (HasSession(fleet', j) <=> HasSession(fleet, j))]_vars

\* C22: two instances of one title in two projects; the record of the first
\* was restored onto the session the second had started, the first was killed,
\* and the session of the second, which was not killed, is gone.
C22_KilledTheOthersSession ==
    /\ last.op = "Kill" /\ last.i = 1 /\ last.err = NoErr
    /\ Len(fleet.inst) = 2
    /\ fleet.inst[1].title = fleet.inst[2].title
    /\ fleet.inst[1].project # fleet.inst[2].project
    /\ fleet.inst[1].stored
    /\ fleet.inst[2].started /\ ~fleet.inst[2].stored /\ ~fleet.inst[2].killed
    /\ ~HasSession(fleet, 2)

\* Two instances of two titles in one project have one session name, and the
\* Start of the second was refused because of the session of the first.
C22_StartRefusedByTheOther ==
    /\ last.op = "Start" /\ last.i = 2
    /\ last.err = <<"tmux session already exists">>
    /\ fleet.inst[1].project = fleet.inst[2].project
    /\ fleet.inst[1].title # fleet.inst[2].title
    /\ fleet.inst[1].started /\ ~fleet.inst[1].killed

\* A record without its time of update.
ButUpdatedAt(data) == [data EXCEPT !.UpdatedAt = 0]

\* C21 (as stated): the record of the instance that came back from a record
\* equals that record in every field but UpdatedAt.
C21_RoundTripEqual ==
    last.op = "ToInstanceData again" =>
       ButUpdatedAt(last.second[1]) = ButUpdatedAt(last.first[1])

\* C21: a running instance with AutoYes set was serialized, came back and was
\* serialized again, and the second record has AutoYes unset.
C21_AutoYesLost ==
    /\ last.op = "ToInstanceData again"
    /\ last.first[1].Status = Running
    /\ last.first[1].AutoYes
    /\ ~last.second[1].AutoYes

\* A ready instance came back running.
C21_ReadyCameBackRunning ==
    /\ last.op = "ToInstanceData again"
    /\ last.first[1].Status = Ready
    /\ last.second[1].Status = Running

\* Every field but AutoYes and Status, and these two for a paused or running
\* instance with AutoYes unset, are equal.
C21_OtherFieldsEqual ==
    last.op = "ToInstanceData again" =>
       LET a == last.first[1]
           b == last.second[1]
       IN  /\ [b EXCEPT !.UpdatedAt = 0, !.AutoYes = FALSE, !.Status = Running]
              = [a EXCEPT !.UpdatedAt = 0, !.AutoYes = FALSE, !.Status = Running]
           /\ (a.Status \in {Running, Paused} /\ ~a.AutoYes)
                 => ButUpdatedAt(b) = ButUpdatedAt(a)

\* [a-z0-9]
AlphaNum == {"a", "z", "7"}

\* No hyphen at either end and no two hyphens in a row.
HyphensApart(str) ==
    /\ Len(str) > 0 => str[1] # "-" /\ str[Len(str)] # "-"
    /\ \A i \in 1..(Len(str) - 1) : ~(str[i] = "-" /\ str[i + 1] = "-")

\* ^[a-z0-9][a-z0-9_-]*[a-z0-9]$
MatchesIdentifier(str) ==
    /\ Len(str) >= 2
    /\ str[1] \in AlphaNum
    /\ str[Len(str)] \in AlphaNum
    /\ \A i \in 1..Len(str) : str[i] \in SafeChars

\* C24 (as stated): the output of sanitizeIdentifier is empty or matches
\* ^[a-z0-9][a-z0-9_-]*[a-z0-9]$, has no two hyphens in a row and no hyphen at
\* either end.
C24_IdentifierShape ==
    last.op = "sanitizeIdentifier" =>
       \/ last.out = <<>>
       \/ MatchesIdentifier(last.out) /\ HyphensApart(last.out)

\* C24: the translation "a" gave the identifier "a", which the pattern, of two
\* characters at least, does not match.
C24_OneCharacter ==
    /\ last.op = "sanitizeIdentifier"
    /\ last.in = <<"a">>
    /\ last.out = <<"a">>

\* The translation "_a-" gave "_a", which begins with an underscore.
C24_UnderscoreFirst ==
    /\ last.op = "sanitizeIdentifier"
    /\ last.in = <<"_", "a", "-">>
    /\ last.out = <<"_", "a">>

\* The output holds safe characters only, has no two hyphens in a row and no
\* hyphen at either end, and sanitizing it again changes nothing.
C24_SafeAndHyphensApart ==
    /\ last.op = "sanitizeIdentifier" =>
          /\ \A i \in 1..Len(last.out) : last.out[i] \in SafeChars
          /\ HyphensApart(last.out)
    /\ last.op = "sanitizeIdentifier again" => last.again = last.out

\* Hyphens in a row were made one: "a- Z" gave "a-z".
C24_HyphensCollapsed ==
    /\ last.op = "sanitizeIdentifier"
    /\ last.in = <<"a", "-", " ", "Z">>
    /\ last.out = <<"a", "-", "z">>

\* A byte of the read is 0x11.
HasCtrlQ(chunk) == \E i \in 1..Len(chunk) : chunk[i] = CtrlQ

\* The bytes written to the session, in order.
ForwardedBytes(a) == Flatten(a.forwarded)

\* C25 (as stated): a read within the window is neither forwarded nor does it
\* begin Detach; after the window Detach begins exactly when a byte of the read
\* is 0x11, and every other byte of the read is forwarded.
C25_EveryCtrlQDetaches ==
    [][last'.op = "Read" =>
          IF att.window = "open"
          THEN att'.forwarded = att.forwarded /\ att'.reader = "reading"
          ELSE /\ att'.reader = "Detach" <=> HasCtrlQ(last'.chunk)
               /\ ForwardedBytes(att')
                     = ForwardedBytes(att) \o SelectSeq(last'.chunk, LAMBDA b : b # CtrlQ)]_vars

\* C25 (amended): a read within the window is neither forwarded nor does it
\* begin Detach; after the window a read of the one byte 0x11 begins Detach and
\* is not forwarded, and every other read, a 0x11 among its bytes or not, is
\* forwarded whole and begins no Detach.
C25_ReadDiscardedDetachesOrForwarded ==
    [][last'.op = "Read" =>
          IF att.window = "open"
          THEN att'.forwarded = att.forwarded /\ att'.reader = "reading"
          ELSE IF last'.chunk = <<CtrlQ>>
          THEN att'.forwarded = att.forwarded /\ att'.reader = "Detach"
          ELSE att'.forwarded = Append(att.forwarded, last'.chunk)
                  /\ att'.reader = "reading"]_vars

\* C25: after the window a read of the letter a and 0x11 together was
\* forwarded whole and the reading worker reads on.
C25_CtrlQForwardedWithOthers ==
    /\ last.op = "Read"
    /\ last.chunk = <<97, CtrlQ>>
    /\ att.window = "closed"
    /\ att.forwarded = << <<97, CtrlQ>> >>
    /\ att.reader = "reading"

\* A read of 0x11 alone within the window was discarded.
C25_CtrlQDiscardedInWindow ==
    /\ last.op = "Read"
    /\ last.chunk = <<CtrlQ>>
    /\ att.window = "open"
    /\ att.reader = "reading"
    /\ att.forwarded = <<>>

\* A read of 0x11 alone after the window began Detach.
C25_CtrlQDetached ==
    /\ last.op = "Read"
    /\ last.chunk = <<CtrlQ>>
    /\ att.reader = "Detach"

\* C26 (as stated): the done-channel of an attach is closed once at most, and
\* when it is closed the old stream has been closed, a new one restored, the
\* context cancelled and the copying worker joined.
C26_ClosedOnceAfterDetachSteps ==
    /\ att.closes <= 1
    /\ att.closes = 1 =>
          /\ att.atClose[1].oldClosed
          /\ att.atClose[1].restored
          /\ att.atClose[1].cancelled
          /\ att.atClose[1].joined

\* C26: the close of the old stream failed and the done-channel was closed by
\* the deferred function, with no stream restored and no worker joined.
C26_ClosedWhileFailing ==
    /\ last.op = "DetachClose"
    /\ att.crashed
    /\ att.attachCh = "closed"
    /\ ~att.atClose[1].oldClosed
    /\ ~att.restored
    /\ ~att.joined

\* When Detach returns, the done-channel is closed once after the four steps.
C26_ClosedOnceWhenDetachReturns ==
    /\ att.closes <= 1
    /\ (att.closes = 1 /\ ~att.crashed) =>
          /\ att.atClose[1].oldClosed
          /\ att.atClose[1].restored
          /\ att.atClose[1].cancelled
          /\ att.atClose[1].joined

\* A second attach was detached and its channel closed.
C26_SecondAttachDetached ==
    /\ att.attaches = 2
    /\ att.closes = 1
    /\ ~att.crashed
    /\ att.app = "default"

\* C38 (as stated): on a detach by Ctrl+q the copying worker finds the context
\* cancelled when io.Copy returns and prints no warning.
C38_NoWarningOnDetach ==
    att.warned => att.crashed

\* C38: a detach by Ctrl+q has returned and closed the done-channel, and the
\* copying worker, whose io.Copy returned before t.cancel(), has printed the
\* warning.
C38_WarnedOnNormalDetach ==
    /\ att.warned
    /\ ~att.crashed
    /\ att.reader = "returned"
    /\ att.closes = 1
    /\ att.atClose[1].cancelled

\* The worker whose io.Copy returns after t.cancel() prints no warning.
C38_QuietWhenCancelledFirst ==
    /\ last.op = "WorkerEnds"
    /\ att.cancelled
    /\ ~att.warned

\* C39 (as stated): once Start or Restore has succeeded on the handle and it
\* has not been closed, the live stream is there after any attach, detach and
\* safe-detach; and a safe-detach on a handle that is not attached returns no
\* error and changes nothing.
C39_LiveStreamKept ==
    /\ last.live => ptmx
    /\ (last.op = "DetachSafely" /\ ~last.pre.attachCh) =>
          /\ last.err = NoErr
          /\ ptmx = last.pre.ptmx
          /\ ~attachCh
          /\ sessionExists = last.pre.sessionExists

\* C39: a started handle was attached and safely detached without an error,
\* and its live stream is nil.
C39_StreamNilAfterDetachSafely ==
    /\ last.op = "DetachSafely"
    /\ last.err = NoErr
    /\ last.live
    /\ last.pre.attachCh
    /\ last.pre.ptmx
    /\ ~ptmx
    /\ ~attachCh

\* A safe-detach on a handle that is not attached returns no error and changes
\* nothing, and after any safe-detach the handle is not attached; the live
\* stream is kept by attach and by detach.
C39_DetachSafelyNoOpWhenDetached ==
    /\ (last.op = "DetachSafely" /\ ~last.pre.attachCh) =>
          /\ last.err = NoErr
          /\ ptmx = last.pre.ptmx
          /\ sessionExists = last.pre.sessionExists
    /\ last.op = "DetachSafely" => ~attachCh
    /\ (last.op \in {"Attach", "Detach"} /\ last.live) => ptmx

\* A safe-detach was called on a live handle that was not attached.
C39_DetachSafelyOnDetached ==
    /\ last.op = "DetachSafely"
    /\ ~last.pre.attachCh
    /\ last.live
    /\ ptmx

\* C40 (as stated): Start on a handle whose session does not exist opens the
\* pseudo-terminal of new-session, closes it, and opens the one of
\* attach-session, which is the live stream when Start returns; Start on a
\* handle whose session exists fails and opens none.
C40_TwoPtysInOrder ==
    last.op = "Start" =>
       IF last.pre.sessionExists
       THEN last.err # NoErr /\ last.ptys = <<>>
       ELSE /\ last.ptys = <<"open new-session", "close new-session", "open attach-session">>
            /\ ptmx

\* C40: the session did not show up within the two seconds; Start has returned
\* the error with the pseudo-terminal of new-session open.
C40_TimedOutWithPtyOpen ==
    /\ last.op = "Start"
    /\ ~last.pre.sessionExists
    /\ "Timeout" \in last.faults
    /\ last.err # NoErr
    /\ last.ptys = <<"open new-session">>
    /\ last.left = 1

\* A Start that returns no error has opened the two pseudo-terminals in order
\* and closed the first; a Start on an existing session fails and opens none.
C40_TwoPtysWhenStartSucceeds ==
    last.op = "Start" =>
       /\ last.pre.sessionExists => (last.err # NoErr /\ last.ptys = <<>>)
       /\ last.err = NoErr =>
             /\ last.ptys = <<"open new-session", "close new-session", "open attach-session">>
             /\ ptmx

\* A Start has succeeded.
C40_StartSucceeded ==
    /\ last.op = "Start"
    /\ last.err = NoErr
    /\ ~last.pre.sessionExists
    /\ sessionExists

C31_UpdateReportedBySecondCall ==
    /\ last.op = "HasUpdated"
    /\ last.calls >= 2
    /\ last.same
    /\ ~last.prevCaptured
    /\ last.updated

\* C32 (as stated): when an operation the user asked for fails, a resume or
\* the kill or the push that the user confirmed in the modal, its error is in
\* the error box and a hideErrMsg that will clear it is on its way.
C32_FailureShownThenCleared ==
    (last.op \in {"KeyResume", "Confirm"} /\ last.err # NoErr) =>
       /\ home.errBox = last.err
       /\ home.hides > 0

\* C32: the user confirmed the kill, the kill action failed, and the error box
\* is empty.
C32_ConfirmedKillFailedUnseen ==
    /\ last.op = "Confirm"
    /\ last.pre.home.confirmationOverlay = <<"kill">>
    /\ last.err # NoErr
    /\ home.errBox = <<>>
    /\ home.hides = 0
    /\ inList

\* The error of a failed resume is shown and a hideErrMsg is on its way.
C32_ResumeFailureShown ==
    (last.op = "KeyResume" /\ last.err # NoErr) =>
       /\ home.errBox = last.err
       /\ home.hides > 0

\* A resume has failed.
C32_ResumeFailed ==
    /\ last.op = "KeyResume"
    /\ last.err # NoErr
    /\ home.errBox = last.err

\* C33: while the modal is shown, y runs the pending action once and leaves the
\* default state without overlay; n and Esc leave the default state without
\* overlay and run nothing; any other key changes neither the state, nor the
\* overlay, nor the instance.
C33_ConfirmKeys ==
    [][(appState = stateConfirm /\ last'.op \in {"Confirm", "Cancel", "Ignored"}) =>
          IF last'.key = "y"
          THEN /\ appState' = stateDefault
               /\ home'.confirmationOverlay = <<>>
               /\ home'.ran = home.ran + 1
               /\ last'.op = "Confirm"
          ELSE IF last'.key \in {"n", "esc"}
          THEN /\ appState' = stateDefault
               /\ home'.confirmationOverlay = <<>>
               /\ home'.ran = home.ran
               /\ UNCHANGED instanceStateOfKeys
          ELSE /\ appState' = stateConfirm
               /\ home' = home
               /\ UNCHANGED instanceStateOfKeys]_vars

\* C33: y in the modal of a kill has run the kill once: the record of the
\* instance is gone from the store and the modal is closed.
C33_KillRanOnce ==
    /\ last.op = "Confirm"
    /\ last.key = "y"
    /\ last.err = NoErr
    /\ last.pre.home.confirmationOverlay = <<"kill">>
    /\ last.pre.store # {}
    /\ store = {}
    /\ home.ran = 1
    /\ home.confirmationOverlay = <<>>
    /\ appState = stateDefault

\* Esc closed the modal of a kill and the instance is still in the list.
C33_EscCancelled ==
    /\ last.op = "Cancel"
    /\ last.key = "esc"
    /\ inList
    /\ home.ran = 0
    /\ appState = stateDefault

\* C34: for every instance, the first-time Start and the translation are begun
\* at most once, and never while a translation or a Start of that instance is
\* still in flight, whatever keys are pressed in the name entry.
C34_StartBegunOnce ==
    \A id \in 1..Len(entry.objs) :
       /\ entry.objs[id].begun <= 1
       /\ entry.objs[id].translations <= 1
       /\ ~entry.objs[id].overlapped

\* C34: Enter was pressed twice on a title under translation, both translations
\* completed, and two Starts of the one instance are in flight.
C34_TwoStartsInFlight ==
    \E id \in 1..Len(entry.objs) :
       /\ entry.objs[id].translations = 2
       /\ entry.objs[id].running = 2

\* C35: a completion message that renames, persists or kills an instance does
\* so to the instance the translation or the start was requested for.
C35_EventHitsItsInstance ==
    (last.op \in {"TranslationComplete", "StartComplete"} /\ last.hit.effect # "none")
       => last.hit.target = last.hit.for

\* C35: the instance under translation was cancelled and another was created;
\* the translation message has renamed the other one and issued its Start.
C35_OtherInstanceRenamed ==
    /\ last.op = "TranslationComplete"
    /\ last.hit.effect = "rename"
    /\ last.hit.target # last.hit.for
    /\ \A k \in 1..Len(entry.items) : entry.items[k] # last.hit.for
    /\ \E k \in 1..Len(entry.cmds) :
          entry.cmds[k].kind = "start" /\ entry.cmds[k].for = last.hit.target

\* C36: whatever fails on the way, Pause does not remove a worktree that holds
\* uncommitted changes.
C36_PauseKeepsUncommitted == last.op = "Pause" => ~last.lost

\* C36: the dirty check of a Pause failed on a worktree with uncommitted
\* changes, and the worktree has been removed with them.
C36_RemovedAfterFailedDirtyCheck ==
    /\ last.op = "Pause"
    /\ "IsDirty" \in last.faults
    /\ Attempted("Remove")
    /\ last.lost
    /\ ~worktreeExists

\* C37: what the file held before a call of any manager (the projects other
\* than one the call removes, their instance counts other than one the call
\* sets, the help-screens mask unless the call sets it) is in the file after.
C37_SavedChangesKept ==
    last.op \in {"AddProject", "UpdateProjectInstanceCount", "RemoveProject",
                 "SetHelpScreensSeen"}
       => /\ \A i \in 1..Len(last.pre.Projects) :
                LET q == last.pre.Projects[i]
                    j == ProjectIndex(globalFile.state.Projects, q.ID)
                IN  \/ last.op = "RemoveProject" /\ last.id = q.ID
                    \/ /\ j > 0
                       /\ \/ last.op = "UpdateProjectInstanceCount" /\ last.id = q.ID
                          \/ globalFile.state.Projects[j].InstanceCount = q.InstanceCount
          /\ \/ last.op = "SetHelpScreensSeen"
             \/ globalFile.state.HelpScreensSeen = last.pre.HelpScreensSeen

\* C37: a manager that had cached the state before another manager added a
\* project has saved the help-screens mask, and the project is gone from the file.
C37_ProjectOfOtherManagerLost ==
    /\ last.op = "SetHelpScreensSeen"
    /\ last.err = NoErr
    /\ \E i \in 1..Len(last.pre.Projects) :
          ProjectIndex(globalFile.state.Projects, last.pre.Projects[i].ID) = 0
    /\ \E m \in Managers :
          /\ m # last.mgr
          /\ \E i \in 1..Len(last.pre.Projects) :
                ProjectIndex(last.caches[m].state.Projects, last.pre.Projects[i].ID) > 0

====
